---- MODULE Spec2Model ----
(***************************************************************************)
(* Model of the issue step of playwright-failure-analyzer:                 *)
(*   src/src/create_issue.py   GitHubAPIClient, IssueManager, main         *)
(*   src/src/error_handling.py ActionError, GitHubAPIErrorHandler          *)
(* together with the tracker (GitHub) the client talks to.                 *)
(*                                                                         *)
(* Strings whose content the code inspects (titles, response bodies,       *)
(* header values) are sequences of one-character strings.                  *)
(***************************************************************************)
EXTENDS Integers, Sequences, FiniteSets, TLC

VARIABLES
    issues,       \* the tracker: issue number n is issues[n]
    inv,          \* inv[p]: the invocation of the issue step run by process p
    runs,         \* invocations started so far
    dedup_only,   \* history: every invocation that went on to the issue step
                  \* so far had deduplicate on
    max_retries,  \* the retry budget _make_request runs with
    ai_config,    \* the advisory layer as deployed: flag, import, API key
    parse,        \* the run of parse_report.py
    classify,     \* a message and what the classifiers of parse_report.py return
    extract,      \* a suite tree and the failure records extracted from it
    truncate      \* a text, a limit and what truncate_text returns

vars ==
    <<issues, inv, runs, dedup_only, max_retries, ai_config, parse, classify,
      extract, truncate>>

issue_vars == <<issues, inv, runs, dedup_only, max_retries, ai_config>>

report_vars == <<parse, classify, extract, truncate>>

----------------------------------------------------------------------------
(* Bounds of the model *)

MaxInvocations == 2
MaxIssues == 3
MaxBudget == 3
MaxSends == 5
MaxTextLen == 150

(* Program constants *)

DefaultMaxRetries == 3
DefaultRetryAfter == 60

Procs == {1, 2}

----------------------------------------------------------------------------
(* Strings *)

Str_a == <<"a">>
Str_ab == <<"a", "b">>

Titles == {Str_a, Str_ab}

\* needle in hay (Python's `in` on str)
Contains(hay, needle) ==
    \E i \in 0..(Len(hay) - Len(needle)) :
        SubSeq(hay, i + 1, i + Len(needle)) = needle

UpperLetters ==
    <<"A", "B", "C", "D", "E", "F", "G", "H", "I", "J", "K", "L", "M", "N",
      "O", "P", "Q", "R", "S", "T", "U", "V", "W", "X", "Y", "Z">>

LowerLetters ==
    <<"a", "b", "c", "d", "e", "f", "g", "h", "i", "j", "k", "l", "m", "n",
      "o", "p", "q", "r", "s", "t", "u", "v", "w", "x", "y", "z">>

LowerChar(c) ==
    IF \E i \in 1..Len(UpperLetters) : UpperLetters[i] = c
    THEN LowerLetters[CHOOSE i \in 1..Len(UpperLetters) : UpperLetters[i] = c]
    ELSE c

\* str.lower()
Lower(s) == [i \in 1..Len(s) |-> LowerChar(s[i])]

DigitValue(c) ==
    CASE c = "0" -> 0 [] c = "1" -> 1 [] c = "2" -> 2 [] c = "3" -> 3
      [] c = "4" -> 4 [] c = "5" -> 5 [] c = "6" -> 6 [] c = "7" -> 7
      [] c = "8" -> 8 [] c = "9" -> 9

RECURSIVE ParseInt(_)
\* int(s) for a string of decimal digits
ParseInt(s) ==
    IF Len(s) = 0 THEN 0
    ELSE 10 * ParseInt(SubSeq(s, 1, Len(s) - 1)) + DigitValue(s[Len(s)])

RECURSIVE Pow2(_)
Pow2(n) == IF n = 0 THEN 1 ELSE 2 * Pow2(n - 1)

----------------------------------------------------------------------------
(* error_handling.py: the error taxonomy and Python's raise statement *)

NoDetails == [status_code |-> 0, response |-> <<>>]

\* ActionError is declared as a plain @dataclass: it has no exception base class
ActionError(code, message, severity, details) ==
    [cls |-> "ActionError", code |-> code, message |-> message,
     severity |-> severity, details |-> details]

\* the classes of this program's exceptions that derive from BaseException
ExceptionClasses ==
    {"RuntimeError", "RequestException", "TypeError", "AttributeError",
     "SystemExit"}

PyException(cls, message) ==
    [cls |-> cls, code |-> "none", message |-> message,
     severity |-> "none", details |-> NoDetails]

NoException == PyException("none", "")

\* `raise obj`: what propagates. An object whose class does not derive from
\* BaseException cannot be raised; the statement raises TypeError instead.
Raise(obj) ==
    IF obj.cls \in ExceptionClasses
    THEN obj
    ELSE PyException("TypeError", "exceptions must derive from BaseException")

RateLimitPhrase == <<"r", "a", "t", "e", " ", "l", "i", "m", "i", "t">>

\* GitHubAPIErrorHandler.handle_api_error: the exception that leaves the call
handle_api_error(status_code, text) ==
    LET details == [status_code |-> status_code, response |-> text] IN
    IF status_code = 401 THEN
        Raise(ActionError("INVALID_TOKEN", "GitHub API authentication failed",
                          "critical", details))
    ELSE IF status_code = 403 THEN
        IF Contains(Lower(text), RateLimitPhrase) THEN
            Raise(ActionError("API_RATE_LIMIT", "GitHub API rate limit exceeded",
                              "medium", details))
        ELSE
            Raise(ActionError("API_PERMISSION_DENIED",
                              "Insufficient permissions for GitHub API operation",
                              "critical", details))
    ELSE IF status_code = 404 THEN
        Raise(ActionError("API_NOT_FOUND", "GitHub API resource not found",
                          "high", details))
    ELSE IF status_code >= 500 THEN
        Raise(ActionError("API_SERVER_ERROR", "GitHub API server error",
                          "medium", details))
    ELSE
        Raise(ActionError("API_SERVER_ERROR", "GitHub API error", "high", details))

\* the exit status of an interpreter that ends with an uncaught exception
UncaughtExitCode == 1

\* how a run of a script ended: the exit status of the process, what
\* handle_error wrote (the error's code and message; the suggestions go with
\* them when the error has some), and the exception that was never caught
Ended(exit_code, emitted, uncaught) ==
    [exit_code |-> exit_code, emitted |-> emitted, uncaught |-> uncaught]

\* ActionErrorHandler.handle_error, the exit_code mapping and its default
severity_exit_code(severity) ==
    CASE severity = "low" -> 0
      [] severity = "medium" -> 1
      [] severity = "high" -> 2
      [] severity = "critical" -> 3
      [] OTHER -> 1

\* ActionErrorHandler.handle_error: log, print the annotation, sys.exit
handle_error(error) ==
    Ended(severity_exit_code(error.severity), <<error.code, error.message>>,
          NoException)

\* ActionErrorHandler.create_error
create_error(code, message, severity) ==
    ActionError(code, message, severity, NoDetails)

\* error_handler's wrapper around main, and the interpreter around the
\* wrapper. `exc` is what main ended with (NoException: it returned).
\* An exception that reaches the try statement is first matched against
\* `except ActionError`; matching against a class that does not derive from
\* BaseException raises TypeError out of the try statement, whatever the
\* exception (SystemExit included), and nothing catches that.
error_handler_wrapper(exc) ==
    IF exc = NoException THEN Ended(0, <<>>, NoException)
    ELSE IF "ActionError" \notin ExceptionClasses THEN
        Ended(UncaughtExitCode, <<>>,
              PyException("TypeError",
                  "catching classes that do not inherit from BaseException is not allowed"))
    ELSE IF exc.cls = "ActionError" THEN handle_error(exc)
    ELSE IF exc.cls = "SystemExit" THEN Ended(0, <<>>, NoException)
    ELSE handle_error(create_error("UNEXPECTED_ERROR", "Unexpected error in main",
                                   "critical"))

NotEnded == Ended(0 - 1, <<>>, NoException)

----------------------------------------------------------------------------
(* The tracker: what the GitHub API does with a request it processes *)

EmptyMap == [k \in {} |-> <<>>]

Url(number) == <<"issues", number>>

\* the JSON of an issue as the API returns it
IssueJson(iss, n) ==
    [number |-> n, title |-> iss[n].title, html_url |-> Url(n)]

RECURSIVE SearchFrom(_, _, _)
\* open issues number n and below whose title contains the term, newest first
SearchFrom(iss, term, n) ==
    IF n = 0 THEN <<>>
    ELSE IF iss[n].state = "open" /\ Contains(iss[n].title, term)
         THEN <<IssueJson(iss, n)>> \o SearchFrom(iss, term, n - 1)
         ELSE SearchFrom(iss, term, n - 1)

\* GET /search/issues?q=is:open is:issue in:title "<term>"&sort=created&order=desc
TrackerSearch(iss, term) == SearchFrom(iss, term, Len(iss))

\* POST /repos/{repo}/issues
TrackerCreate(iss, data) ==
    Append(iss, [title |-> data["title"],
                 body |-> data["body"],
                 labels |-> IF "labels" \in DOMAIN data THEN data["labels"] ELSE <<>>,
                 assignees |-> IF "assignees" \in DOMAIN data
                               THEN data["assignees"] ELSE <<>>,
                 state |-> "open"])

\* PATCH /repos/{repo}/issues/{n}: only the fields present in the payload change
TrackerUpdate(iss, n, data) ==
    [iss EXCEPT ![n] =
        [title |-> IF "title" \in DOMAIN data THEN data["title"] ELSE @.title,
         body |-> IF "body" \in DOMAIN data THEN data["body"] ELSE @.body,
         labels |-> IF "labels" \in DOMAIN data THEN data["labels"] ELSE @.labels,
         assignees |-> IF "assignees" \in DOMAIN data
                       THEN data["assignees"] ELSE @.assignees,
         state |-> IF "state" \in DOMAIN data THEN data["state"] ELSE @.state]]

----------------------------------------------------------------------------
(* create_issue.py: GitHubAPIClient *)

\* bug: the requested labels are not sent
create_issue_data_no_labels(title, body, labels, assignees) ==
    ("title" :> title) @@ ("body" :> body)
    @@ (IF assignees # <<>> THEN ("assignees" :> assignees) ELSE EmptyMap)

\* create_issue: the JSON payload; empty labels and assignees are left out
create_issue_data(title, body, labels, assignees) ==
    ("title" :> title) @@ ("body" :> body)
    @@ (IF labels # <<>> THEN ("labels" :> labels) ELSE EmptyMap)
    @@ (IF assignees # <<>> THEN ("assignees" :> assignees) ELSE EmptyMap)

\* bug: the update also closes the issue
update_issue_data_closing(body) ==
    ("body" :> body) @@ ("state" :> "closed")

\* update_issue(issue_number, body=body): title and state are not passed
update_issue_data(body) ==
    IF body.sections # <<>> THEN ("body" :> body) ELSE EmptyMap

\* bug: the Retry-After header is ignored
retry_after_ignored(headers) == DefaultRetryAfter

\* _make_request line 93: int(response.headers.get("Retry-After", 60))
retry_after(headers) ==
    IF "Retry-After" \in DOMAIN headers
    THEN ParseInt(headers["Retry-After"])
    ELSE DefaultRetryAfter

\* bug: one iteration too many
loop_continues_inclusive(attempt, budget) == attempt <= budget

\* _make_request line 80: `for attempt in range(max_retries)` runs its body
loop_continues(attempt, budget) == attempt < budget

\* bug (or the other design): a 429 repeats the same attempt
attempt_after_rate_limit_same(attempt) == attempt

\* _make_request lines 92-96: `continue` after a 429 goes on to the next attempt
attempt_after_rate_limit(attempt) == attempt + 1

\* _make_request line 105: the attempt on which a transport failure is re-raised
is_last_attempt(attempt, budget) == attempt = budget - 1

\* bug: linear instead of exponential backoff
backoff_seconds_linear(attempt) == 2 * attempt

\* _make_request line 108: time.sleep(2**attempt)
backoff_seconds(attempt) == Pow2(attempt)

----------------------------------------------------------------------------
(* create_issue.py: IssueFormatter and IssueManager *)

\* format_issue_body: the sections of the document, in order
format_issue_body(summary, ai_analysis) ==
    [failed_tests |-> summary.failed_tests,
     sections |-> <<"header", "stats">>
                  \o (IF ai_analysis # <<>> THEN <<"ai">> ELSE <<>>)
                  \o <<"details", "debug", "next_steps">>]

\* bug: the search results are not looked at
find_existing_issue_none(items, title) == <<>>

RECURSIVE find_existing_issue_substring(_, _)
\* bug: the first search hit whose title contains the target is taken
find_existing_issue_substring(items, title) ==
    IF items = <<>> THEN <<>>
    ELSE IF Contains(Head(items).title, title) THEN <<Head(items)>>
    ELSE find_existing_issue_substring(Tail(items), title)

\* bug: the first search hit is taken, whatever its title
find_existing_issue_first(items, title) ==
    IF items = <<>> THEN <<>> ELSE <<Head(items)>>

RECURSIVE find_existing_issue(_, _)
\* _find_existing_issue, the loop over the search results: <<issue>> or <<>> (None)
find_existing_issue(items, title) ==
    IF items = <<>> THEN <<>>
    ELSE IF Head(items).title = title THEN <<Head(items)>>
    ELSE find_existing_issue(Tail(items), title)

\* what the advisory step of main leaves behind: the analysis (<<>> is None),
\* the reason there is none, and the exception that escaped, if any
Advice(ai_analysis, how, exc) ==
    [ai_analysis |-> ai_analysis, how |-> how, exc |-> exc]

\* bug: AIAnalyzer.analyze_failures without its try/except
analyze_failures_unguarded(llm) ==
    IF llm = "result"
    THEN Advice(<<"analysis">>, "result", NoException)
    ELSE Advice(<<>>, "failed", Raise(PyException("RuntimeError", "llm")))

\* ai_analysis.py AIAnalyzer.analyze_failures: the completion and its parsing
\* either give an AIAnalysisResult, or raise, which is logged and gives None
analyze_failures(llm) ==
    IF llm = "result"
    THEN Advice(<<"analysis">>, "result", NoException)
    ELSE Advice(<<>>, "failed", NoException)

\* ai_analysis.py analyze_failures_with_ai (called with enabled=True) and
\* create_ai_analyzer: None without failures to analyse or without an API key
analyze_failures_with_ai(failures_listed, has_key, llm) ==
    IF ~failures_listed THEN Advice(<<>>, "nothing", NoException)
    ELSE IF ~has_key THEN Advice(<<>>, "unconfigured", NoException)
    ELSE analyze_failures(llm)

\* main lines 405-418: the advisory step
run_ai_analysis(cfg, summary, adv) ==
    IF cfg.enabled /\ summary.failed_tests > 0 THEN
        IF cfg.available
        THEN analyze_failures_with_ai(adv.failures_listed, cfg.has_key, adv.llm)
        ELSE Advice(<<>>, "unavailable", NoException)
    ELSE Advice(<<>>, "disabled", NoException)

\* bug: the search is skipped
searches_first_never(deduplicate) == FALSE

\* create_or_update_issue line 313: `if deduplicate:` searches before anything
\* is created
searches_first(deduplicate) == deduplicate

\* bug: the zero-failure exit is missing
no_failures_never(summary) == FALSE

\* main line 393: `if summary["failed_tests"] == 0` skips the issue step
no_failures(summary) == summary.failed_tests = 0

----------------------------------------------------------------------------
(* parse_report.py and the ReportValidator of error_handling.py *)

(* A parsed JSON document is a record: `top` is the type of the top-level  *)
(* value; of an object, `stats` and `suites` are <<>> when the key is      *)
(* missing and <<value>> otherwise, and each value says its JSON type.     *)

\* dict.get(key, default)
Get(map, key, default) == IF key \in DOMAIN map THEN map[key] ELSE default

IntValue(n) == [kind |-> "int", n |-> n]

StrValue == [kind |-> "string", n |-> 0]

\* the exception Python raises on a + b, NoException when it adds (two
\* numbers) or concatenates (two strings)
AddError(a, b) ==
    IF a.kind = b.kind THEN NoException
    ELSE PyException("TypeError", "unsupported operand type(s) for +")

\* a + b of two values of the same kind
Add(a, b) == IF a.kind = "int" THEN IntValue(a.n + b.n) ELSE StrValue

\* stats.get("expected", 0) + stats.get("unexpected", 0) + stats.get("skipped", 0):
\* <<the exception, the sum>>
total_of(counts) ==
    LET e == Get(counts, "expected", IntValue(0))
        u == Get(counts, "unexpected", IntValue(0))
        k == Get(counts, "skipped", IntValue(0))
    IN IF AddError(e, u) # NoException THEN <<AddError(e, u), IntValue(0)>>
       ELSE IF AddError(Add(e, u), k) # NoException
            THEN <<AddError(Add(e, u), k), IntValue(0)>>
       ELSE <<NoException, Add(Add(e, u), k)>>

\* ReportValidator.validate_report_structure: the exception that leaves it
validate_report_structure(report_data) ==
    IF report_data.top = "number" THEN
        \* `field not in report_data`
        PyException("TypeError", "argument of type 'int' is not iterable")
    ELSE IF report_data.top \in {"array", "string"} THEN
        \* the fields are missing; building the error's details calls
        \* report_data.keys()
        PyException("AttributeError", "object has no attribute 'keys'")
    ELSE IF report_data.stats = <<>> \/ report_data.suites = <<>> THEN
        Raise(ActionError("INVALID_REPORT_FORMAT", "Report missing required fields",
                          "high", NoDetails))
    ELSE IF report_data.stats[1].kind # "object" THEN
        Raise(ActionError("CORRUPTED_REPORT",
                          "Report stats section is not in expected format",
                          "high", NoDetails))
    ELSE IF report_data.suites[1].kind # "array" THEN
        Raise(ActionError("CORRUPTED_REPORT",
                          "Report suites section is not in expected format",
                          "high", NoDetails))
    ELSE NoException

\* parse_failures line 113 calls self.validator.validate_playwright_schema;
\* ReportValidator defines validate_report_structure and
\* validate_has_test_results only, so the attribute lookup raises
validate_playwright_schema(report_data) ==
    PyException("AttributeError",
        "'ReportValidator' object has no attribute 'validate_playwright_schema'")

\* ReportValidator.validate_has_test_results: the exception that leaves it
validate_has_test_results(report_data) ==
    LET total == total_of(report_data.stats[1].counts) IN
    IF total[1] # NoException THEN total[1]
    ELSE IF total[2] = IntValue(0) THEN
        Raise(ActionError("NO_TEST_RESULTS", "No test results found in the report",
                          "medium", NoDetails))
    ELSE NoException

\* dict.get(key, default) of a key the document holds as <<value>> and lacks
\* as <<>>
GetOpt(field, default) == IF field = <<>> THEN default ELSE field[1]

\* bug: the default title is the empty string
test_title_of_no_placeholder(test) == GetOpt(test.title, "")

\* _create_test_failure line 208: test.get("title", "Unknown test")
test_title_of(test) == GetOpt(test.title, "Unknown test")

\* bug: the name is qualified even when the suite has no title
full_title_always_qualified(suite_title, test_title) ==
    <<suite_title, " > ", test_title>>

\* _create_test_failure line 209: f"{suite_title} > {test_title}" if
\* suite_title else test_title; a formatted string is the sequence of its parts
full_title(suite_title, test_title) ==
    IF suite_title # "" THEN <<suite_title, " > ", test_title>>
    ELSE <<test_title>>

\* _create_test_failure: <<record>>, or <<>> (None) when building it raised
\* and the except clause printed the warning. result.get("error", {}) that is
\* not an object has no .get: AttributeError. line_number is <<>> (None) or
\* <<line>>.
create_test_failure(test, result, spec, suite_title) ==
    IF result.error = "string" THEN <<>>
    ELSE LET error_message == IF result.error = "missing" THEN "Unknown error"
                              ELSE GetOpt(result.message, "Unknown error")
             stack_trace == IF result.error = "missing" THEN ""
                            ELSE GetOpt(result.stack, "")
             location == GetOpt(test.location, [file |-> <<>>, line |-> <<>>])
             file_path == GetOpt(location.file, GetOpt(spec.file, "unknown"))
             line_number == location.line
         IN <<[test_name |-> full_title(suite_title, test_title_of(test)),
               file_path |-> file_path,
               line_number |-> line_number,
               error_message |-> error_message,
               stack_trace |-> stack_trace,
               duration |-> GetOpt(result.duration, 0),
               retry_count |-> GetOpt(result.retry, 0)]>>

\* bug: a timed-out attempt is not reported
is_reportable_failed_only(result) == result.status = "failed"

\* _extract_spec_failures line 181: result.get("status") in ["failed", "timedOut"]
is_reportable(result) == result.status \in {"failed", "timedOut"}

RECURSIVE results_failures(_, _, _, _)
\* _extract_spec_failures, the loop over the results of one test
results_failures(test, results, spec, suite_title) ==
    IF results = <<>> THEN <<>>
    ELSE (IF is_reportable(Head(results))
          THEN create_test_failure(test, Head(results), spec, suite_title)
          ELSE <<>>)
         \o results_failures(test, Tail(results), spec, suite_title)

RECURSIVE extract_spec_failures(_, _, _)
\* _extract_spec_failures, the loop over the tests of one spec
extract_spec_failures(tests, spec, suite_title) ==
    IF tests = <<>> THEN <<>>
    ELSE results_failures(Head(tests), Head(tests).results, spec, suite_title)
         \o extract_spec_failures(Tail(tests), spec, suite_title)

RECURSIVE specs_failures(_, _)
\* _extract_suite_failures, the loop over the specs of one suite
specs_failures(specs, suite_title) ==
    IF specs = <<>> THEN <<>>
    ELSE extract_spec_failures(Head(specs).tests, Head(specs), suite_title)
         \o specs_failures(Tail(specs), suite_title)

RECURSIVE extract_suite_failures(_)
RECURSIVE suites_failures(_)
\* the loop over a list of suites (parse_failures line 130,
\* _extract_suite_failures line 166)
suites_failures(suites) ==
    IF suites = <<>> THEN <<>>
    ELSE extract_suite_failures(Head(suites)) \o suites_failures(Tail(suites))

\* bug: the suite's own specs come before its nested suites
extract_suite_failures_specs_first(suite) ==
    specs_failures(suite.specs, GetOpt(suite.title, ""))
    \o suites_failures(suite.suites)

\* _extract_suite_failures: the nested suites first, then the suite's own
\* specs, with suite.get("title", "")
extract_suite_failures(suite) ==
    suites_failures(suite.suites)
    \o specs_failures(suite.specs, GetOpt(suite.title, ""))

\* parse_failures lines 134-135: max_failures is <<>> (None) or <<n>>
limit_failures(failures, max_failures) ==
    IF max_failures # <<>> /\ max_failures[1] # 0
          /\ Len(failures) > max_failures[1]
    THEN SubSeq(failures, 1, max_failures[1])
    ELSE failures

NoSummary ==
    [total_tests |-> IntValue(0), passed_tests |-> IntValue(0),
     failed_tests |-> IntValue(0), skipped_tests |-> IntValue(0),
     failures |-> <<>>]

\* how parse_failures ended: the FailureSummary it returned or the exception
\* it raised, and the steps it went through
Parsed(kind, exc, summary, steps) ==
    [kind |-> kind, exc |-> exc, summary |-> summary, steps |-> steps]

\* PlaywrightReportParser.parse_failures on a loaded report
parse_failures(report_data, max_failures) ==
    LET e1 == validate_report_structure(report_data)
        e2 == validate_playwright_schema(report_data)
        e3 == validate_has_test_results(report_data)
        counts == report_data.stats[1].counts
    IN IF e1 # NoException THEN
           Parsed("raised", e1, NoSummary, <<"structure">>)
       ELSE IF e2 # NoException THEN
           Parsed("raised", e2, NoSummary, <<"structure", "schema">>)
       ELSE IF e3 # NoException THEN
           Parsed("raised", e3, NoSummary, <<"structure", "schema", "results">>)
       ELSE
           Parsed("summary", NoException,
                  [total_tests |-> total_of(counts)[2],
                   passed_tests |-> Get(counts, "expected", IntValue(0)),
                   failed_tests |-> Get(counts, "unexpected", IntValue(0)),
                   skipped_tests |-> Get(counts, "skipped", IntValue(0)),
                   failures |-> limit_failures(
                       suites_failures(report_data.suites[1].items),
                       max_failures)],
                  <<"structure", "schema", "results", "extract">>)

\* main of parse_report.py from the parsing on: the summary is written and
\* sys.exit(0) raises SystemExit; an exception of parse_failures propagates
parse_main_exception(parsed) ==
    IF parsed.kind = "summary" THEN PyException("SystemExit", "0")
    ELSE parsed.exc

----------------------------------------------------------------------------
(* parse_report.py: the classifiers of the structured export *)

K_timeout == <<"t", "i", "m", "e", "o", "u", "t">>
K_exceeded == <<"e", "x", "c", "e", "e", "d", "e", "d">>
K_selector == <<"s", "e", "l", "e", "c", "t", "o", "r">>
K_element == <<"e", "l", "e", "m", "e", "n", "t">>
K_await == <<"a", "w", "a", "i", "t">>
K_promise == <<"p", "r", "o", "m", "i", "s", "e">>
K_type == <<"t", "y", "p", "e">>
K_error == <<"e", "r", "r", "o", "r">>
K_mismatch == <<"m", "i", "s", "m", "a", "t", "c", "h">>
K_import == <<"i", "m", "p", "o", "r", "t">>
K_module == <<"m", "o", "d", "u", "l", "e">>
K_network == <<"n", "e", "t", "w", "o", "r", "k">>
K_fetch == <<"f", "e", "t", "c", "h">>
K_request == <<"r", "e", "q", "u", "e", "s", "t">>
K_assertion == <<"a", "s", "s", "e", "r", "t", "i", "o", "n">>
K_expect == <<"e", "x", "p", "e", "c", "t">>
K_waiting_for_selector ==
    <<"w", "a", "i", "t", "i", "n", "g", " ", "f", "o", "r", " ", "s", "e",
      "l", "e", "c", "t", "o", "r">>
K_missing_await ==
    <<"m", "i", "s", "s", "i", "n", "g", " ", "a", "w", "a", "i", "t">>
K_did_you_forget_to_await ==
    <<"d", "i", "d", " ", "y", "o", "u", " ", "f", "o", "r", "g", "e", "t",
      " ", "t", "o", " ", "a", "w", "a", "i", "t">>
K_element_is_not_attached ==
    <<"e", "l", "e", "m", "e", "n", "t", " ", "i", "s", " ", "n", "o", "t",
      " ", "a", "t", "t", "a", "c", "h", "e", "d">>
K_navigation_timeout ==
    <<"n", "a", "v", "i", "g", "a", "t", "i", "o", "n", " ", "t", "i", "m",
      "e", "o", "u", "t">>
K_locator_resolved_to ==
    <<"l", "o", "c", "a", "t", "o", "r", " ", "r", "e", "s", "o", "l", "v",
      "e", "d", " ", "t", "o">>
K_multiple == <<"m", "u", "l", "t", "i", "p", "l", "e">>
K_cannot_find_module ==
    <<"c", "a", "n", "n", "o", "t", " ", "f", "i", "n", "d", " ", "m", "o",
      "d", "u", "l", "e">>
K_type_number_is_not_assignable ==
    <<"t", "y", "p", "e", " ", "'", "n", "u", "m", "b", "e", "r", "'", " ",
      "i", "s", " ", "n", "o", "t", " ", "a", "s", "s", "i", "g", "n", "a",
      "b", "l", "e">>
K_type_string_is_not_assignable ==
    <<"t", "y", "p", "e", " ", "'", "s", "t", "r", "i", "n", "g", "'", " ",
      "i", "s", " ", "n", "o", "t", " ", "a", "s", "s", "i", "g", "n", "a",
      "b", "l", "e">>

\* bug: the final else is missing, the function falls off its end (None)
classify_error_type_no_default(error_message) ==
    LET error_lower == Lower(error_message) IN
    IF Contains(error_lower, K_timeout) \/ Contains(error_lower, K_exceeded)
    THEN "timeout"
    ELSE IF Contains(error_lower, K_selector) \/ Contains(error_lower, K_element)
    THEN "selector"
    ELSE IF Contains(error_lower, K_await) \/ Contains(error_lower, K_promise)
    THEN "async"
    ELSE IF Contains(error_lower, K_type)
            /\ (Contains(error_lower, K_error) \/ Contains(error_lower, K_mismatch))
    THEN "type_error"
    ELSE IF Contains(error_lower, K_import) \/ Contains(error_lower, K_module)
    THEN "import_error"
    ELSE IF Contains(error_lower, K_network) \/ Contains(error_lower, K_fetch)
            \/ Contains(error_lower, K_request)
    THEN "network"
    ELSE IF Contains(error_lower, K_assertion) \/ Contains(error_lower, K_expect)
    THEN "assertion"
    ELSE "None"

\* bug: the selector rule is tried before the timeout rule
classify_error_type_selector_first(error_message) ==
    LET error_lower == Lower(error_message) IN
    IF Contains(error_lower, K_selector) \/ Contains(error_lower, K_element)
    THEN "selector"
    ELSE IF Contains(error_lower, K_timeout) \/ Contains(error_lower, K_exceeded)
    THEN "timeout"
    ELSE IF Contains(error_lower, K_await) \/ Contains(error_lower, K_promise)
    THEN "async"
    ELSE IF Contains(error_lower, K_type)
            /\ (Contains(error_lower, K_error) \/ Contains(error_lower, K_mismatch))
    THEN "type_error"
    ELSE IF Contains(error_lower, K_import) \/ Contains(error_lower, K_module)
    THEN "import_error"
    ELSE IF Contains(error_lower, K_network) \/ Contains(error_lower, K_fetch)
            \/ Contains(error_lower, K_request)
    THEN "network"
    ELSE IF Contains(error_lower, K_assertion) \/ Contains(error_lower, K_expect)
    THEN "assertion"
    ELSE "unknown"

\* _classify_error_type
classify_error_type(error_message) ==
    LET error_lower == Lower(error_message) IN
    IF Contains(error_lower, K_timeout) \/ Contains(error_lower, K_exceeded)
    THEN "timeout"
    ELSE IF Contains(error_lower, K_selector) \/ Contains(error_lower, K_element)
    THEN "selector"
    ELSE IF Contains(error_lower, K_await) \/ Contains(error_lower, K_promise)
    THEN "async"
    ELSE IF Contains(error_lower, K_type)
            /\ (Contains(error_lower, K_error) \/ Contains(error_lower, K_mismatch))
    THEN "type_error"
    ELSE IF Contains(error_lower, K_import) \/ Contains(error_lower, K_module)
    THEN "import_error"
    ELSE IF Contains(error_lower, K_network) \/ Contains(error_lower, K_fetch)
            \/ Contains(error_lower, K_request)
    THEN "network"
    ELSE IF Contains(error_lower, K_assertion) \/ Contains(error_lower, K_expect)
    THEN "assertion"
    ELSE "unknown"

\* _detect_error_pattern
detect_error_pattern(error_message) ==
    LET error_lower == Lower(error_message) IN
    IF Contains(error_lower, K_waiting_for_selector)
       /\ Contains(error_lower, K_timeout)
    THEN "selector_timeout"
    ELSE IF Contains(error_lower, K_missing_await)
            \/ Contains(error_lower, K_did_you_forget_to_await)
    THEN "missing_await"
    ELSE IF Contains(error_lower, K_element_is_not_attached)
    THEN "element_detached"
    ELSE IF Contains(error_lower, K_navigation_timeout)
    THEN "navigation_timeout"
    ELSE IF Contains(error_lower, K_locator_resolved_to)
            /\ Contains(error_lower, K_multiple)
    THEN "multiple_elements"
    ELSE IF Contains(error_lower, K_cannot_find_module)
    THEN "module_not_found"
    ELSE IF Contains(error_lower, K_type_number_is_not_assignable)
    THEN "type_mismatch_number"
    ELSE IF Contains(error_lower, K_type_string_is_not_assignable)
    THEN "type_mismatch_string"
    ELSE "unknown_pattern"

\* _get_fixability_hint: fixability_map.get(error_type, "unknown"), the level
\* the hint starts with
get_fixability_hint(error_message) ==
    LET error_type == classify_error_type(error_message) IN
    CASE error_type = "timeout" -> "medium"
      [] error_type \in {"selector", "async", "type_error", "import_error"} -> "high"
      [] error_type \in {"network", "assertion", "unknown"} -> "low"
      [] OTHER -> "unknown"

----------------------------------------------------------------------------
(* utils.py: truncate_text *)

\* text[:stop], Python's slice: a negative stop counts from the end
SliceTo(text, stop) ==
    IF stop >= 0
    THEN SubSeq(text, 1, IF stop < Len(text) THEN stop ELSE Len(text))
    ELSE SubSeq(text, 1, IF Len(text) + stop > 0 THEN Len(text) + stop ELSE 0)

\* truncate_text line 58: the room left for the truncation message
TruncationReserve == 100

\* truncate_text line 59: "\n\n... (content truncated due to length limits)"
TruncationMessage ==
    <<"\n", "\n", ".", ".", ".", " ", "(", "c", "o", "n", "t", "e", "n", "t",
      " ", "t", "r", "u", "n", "c", "a", "t", "e", "d", " ", "d", "u", "e",
      " ", "t", "o", " ", "l", "e", "n", "g", "t", "h", " ", "l", "i", "m",
      "i", "t", "s", ")">>

\* truncate_text
truncate_text(text, max_length) ==
    IF Len(text) <= max_length THEN text
    ELSE SliceTo(text, max_length - TruncationReserve) \o TruncationMessage

----------------------------------------------------------------------------
(* State of one invocation *)

Methods == {"GET", "POST", "PATCH"}

\* the frame of one _make_request call
NewCall(method, data, number) ==
    [method |-> method, data |-> data, number |-> number,
     attempt |-> 0,          \* the loop variable
     got |-> <<>>,           \* what each request sent so far was answered with
     sleeps |-> <<>>,        \* the arguments of time.sleep, in order
     rate_headers |-> <<>>,  \* the headers of each 429 response, in order
     status_code |-> 0,      \* of the last response
     text |-> <<>>,          \* of the last response
     outcome |-> "pending"]  \* how the call ended

NoCall == NewCall("none", EmptyMap, 0)

NoArgs ==
    [title |-> <<>>, labels |-> <<>>, assignees |-> <<>>,
     deduplicate |-> FALSE, summary |-> [failed_tests |-> 0]]

NoBody == [failed_tests |-> 0, sections |-> <<>>]

IdleInv ==
    [pc |-> "idle", args |-> NoArgs, body |-> NoBody, call |-> NoCall,
     items |-> <<>>, existing |-> <<>>,
     log |-> <<>>,           \* the method of every request sent, in order
     result |-> <<>>,        \* <<(issue_number, issue_url, was_created)>> once returned
     advice |-> Advice(<<>>, "none", NoException),  \* of the advisory step
     exc |-> NoException,    \* the exception that ended the invocation
     ended |-> NotEnded]     \* how the process ended, once main is over

InCall(p) == inv[p].pc \in {"search", "create", "update"}

Sends(c) == Len(c.got)

----------------------------------------------------------------------------
(* Inputs *)

\* failed_tests of the summary file
FailedCounts == {0, 2}

\* the requested labels and assignees: none, or one of each
Requested == {[labels |-> <<>>, assignees |-> <<>>],
              [labels |-> <<"bug">>, assignees |-> <<"user1">>]}

\* the command line and the summary file of one invocation
Inputs ==
    {[title |-> t, labels |-> r.labels, assignees |-> r.assignees,
      deduplicate |-> d, summary |-> [failed_tests |-> f]] :
        t \in Titles, r \in Requested, d \in BOOLEAN, f \in FailedCounts}

OldIssue(t) ==
    [title |-> t, body |-> NoBody, labels |-> <<"manual">>, assignees |-> <<>>,
     state |-> "open"]

\* --ai-analysis (default "false"), whether ai_analysis imports (litellm is
\* installed), and whether an API key is in the environment
AIConfigs == [enabled : BOOLEAN, available : BOOLEAN, has_key : BOOLEAN]

AIDisabled == [enabled |-> FALSE, available |-> TRUE, has_key |-> FALSE]

\* what the advisory layer meets in one invocation: whether the summary lists
\* any failure record, and what the model call does
Advisory == [failures_listed : BOOLEAN, llm : {"result", "failure"}]

\* what the tracker holds before the first invocation
InitialTrackers == {<<>>} \cup {<<OldIssue(t)>> : t \in Titles}

\* Retry-After as GitHub sends it: absent, or a number of seconds in decimal
RetryAfterHeaders == {EmptyMap, ("Retry-After" :> <<"1", "2">>)}

TextForbidden == <<"F", "o", "r", "b", "i", "d", "d", "e", "n">>
TextRateLimit == <<"A", "P", "I", " ", "R", "a", "t", "e", " ", "L", "i", "m", "i", "t">>
TextRatelimit == <<"r", "a", "t", "e", "l", "i", "m", "i", "t">>

\* the error responses of the tracker: <<status code, body>>
ErrorResponses ==
    {<<401, <<>>>>, <<404, <<>>>>, <<422, TextRatelimit>>,
     <<403, TextForbidden>>, <<403, TextRateLimit>>, <<500, TextRateLimit>>}

EmptyCounts == [k \in {} |-> IntValue(0)]

CountsOf(e, u, k) ==
    (IF e # <<>> THEN ("expected" :> e[1]) ELSE EmptyCounts)
    @@ (IF u # <<>> THEN ("unexpected" :> u[1]) ELSE EmptyCounts)
    @@ (IF k # <<>> THEN ("skipped" :> k[1]) ELSE EmptyCounts)

\* "stats": missing, a string, or an object; each count of the object is
\* missing, a number, or (a garbled report) a string
StatsOptions ==
    {<<>>, <<[kind |-> "string", counts |-> EmptyCounts]>>}
    \cup {<<[kind |-> "object", counts |-> CountsOf(e, u, k)]>> :
            e \in {<<>>, <<IntValue(0)>>, <<IntValue(1)>>, <<StrValue>>},
            u \in {<<>>, <<IntValue(0)>>, <<IntValue(1)>>, <<IntValue(2)>>},
            k \in {<<>>, <<IntValue(1)>>}}

(* In a suite tree a key a JSON object may lack is <<>> when missing and   *)
(* <<value>> when present.                                                 *)

ResultOf(status, error, message, stack, duration, retry) ==
    [status |-> status, error |-> error, message |-> message, stack |-> stack,
     duration |-> duration, retry |-> retry]

\* result attempts: failed with its error object; failed with a garbled
\* error (a string); timed out on a retry, without an error; passed on a
\* retry; failed with nothing else in the object; failed with an error object
\* that has no message; skipped; interrupted
Results ==
    [failed |-> ResultOf("failed", "object", <<"Test failed">>,
                         <<"at login.spec.ts:10">>, <<1500>>, <<0>>),
     garbled |-> ResultOf("failed", "string", <<>>, <<>>, <<>>, <<0>>),
     timed_out |-> ResultOf("timedOut", "missing", <<>>, <<>>, <<30000>>, <<1>>),
     passed |-> ResultOf("passed", "missing", <<>>, <<>>, <<200>>, <<1>>),
     bare |-> ResultOf("failed", "missing", <<>>, <<>>, <<>>, <<>>),
     no_message |-> ResultOf("failed", "object", <<>>, <<>>, <<700>>, <<>>),
     skipped |-> ResultOf("skipped", "missing", <<>>, <<>>, <<0>>, <<0>>),
     interrupted |-> ResultOf("interrupted", "missing", <<>>, <<>>, <<10>>, <<0>>)]

\* a test; its location is <<>> when missing, and an object lacking file or
\* line has <<>> for it
TestOf(title, location, results) ==
    [title |-> title, location |-> location, results |-> results]

SpecOf(file, tests) == [file |-> file, tests |-> tests]

SuiteOf(title, suites, specs) ==
    [title |-> title, suites |-> suites, specs |-> specs]

\* the suite trees of the reports: none; one failing test; a test with two
\* failing attempts and a flaky one; a nested suite holding a garbled result
\* between two good ones, ahead of its parent's own spec
SuiteLists ==
    {<<>>,
     <<SuiteOf(<<"Login Tests">>, <<>>,
               <<SpecOf(<<"login.spec.ts">>,
                        <<TestOf(<<"t1">>, <<[file |-> <<"login.spec.ts">>, line |-> <<10>>]>>,
                                 <<Results.failed>>)>>)>>)>>,
     <<SuiteOf(<<"">>, <<>>,
               <<SpecOf(<<>>,
                        <<TestOf(<<"t1">>, <<>>,
                                 <<Results.failed, Results.timed_out>>),
                          TestOf(<<"t2">>, <<>>,
                                 <<Results.failed, Results.passed>>)>>)>>)>>,
     <<SuiteOf(<<"Parent Suite">>,
               <<SuiteOf(<<"Child Suite">>, <<>>,
                         <<SpecOf(<<"child.spec.ts">>,
                                  <<TestOf(<<"t1">>, <<>>, <<Results.failed>>),
                                    TestOf(<<"t2">>, <<>>, <<Results.garbled>>),
                                    TestOf(<<"t3">>, <<>>,
                                           <<Results.timed_out>>)>>)>>)>>,
               <<SpecOf(<<>>,
                        <<TestOf(<<"t4">>, <<>>, <<Results.failed>>)>>)>>)>>}

\* the lists of tests of a spec: one failing test with a location; a test
\* with two failing attempts and a flaky one; a test entry without title and
\* location whose failing result has nothing but its status; tests without a
\* failing attempt; a garbled result between two good ones; a failing result
\* whose error has no message, under a location without a file; no test
TestLists ==
    {<<TestOf(<<"t1">>, <<[file |-> <<"login.spec.ts">>, line |-> <<10>>]>>, <<Results.failed>>)>>,
     <<TestOf(<<"t1">>, <<>>, <<Results.failed, Results.timed_out>>),
       TestOf(<<"t2">>, <<>>, <<Results.failed, Results.passed>>)>>,
     <<TestOf(<<>>, <<>>, <<Results.bare>>)>>,
     <<TestOf(<<"t3">>, <<>>, <<Results.passed>>),
       TestOf(<<"t4">>, <<>>, <<Results.skipped, Results.interrupted>>)>>,
     <<TestOf(<<"t5">>, <<>>, <<Results.failed>>),
       TestOf(<<"t6">>, <<>>, <<Results.garbled>>),
       TestOf(<<"t7">>, <<>>, <<Results.timed_out>>)>>,
     <<TestOf(<<"t8">>, <<[file |-> <<>>, line |-> <<>>]>>, <<Results.no_message>>)>>,
     <<>>}

\* the suite trees failures are extracted from: one suite, its title missing,
\* empty or a name; a suite with a
\* nested suite and a spec of its own; two top-level suites, the second with
\* two specs; three levels, the middle suite without a title and a sibling
\* after it
ExtractSuiteLists ==
    {<<>>}
    \cup {<<SuiteOf(t, <<>>, <<SpecOf(<<"login.spec.ts">>, a)>>)>> :
            t \in {<<>>, <<"">>, <<"Login Tests">>}, a \in TestLists}
    \cup {<<SuiteOf(<<"Parent Suite">>,
                    <<SuiteOf(<<"Child Suite">>, <<>>,
                              <<SpecOf(<<"child.spec.ts">>, a)>>)>>,
                    <<SpecOf(<<>>, b)>>)>> :
            a \in TestLists, b \in TestLists}
    \cup {<<SuiteOf(<<"First">>, <<>>, <<SpecOf(<<>>, a)>>),
            SuiteOf(<<"Second">>, <<>>,
                    <<SpecOf(<<"b.spec.ts">>, b), SpecOf(<<"a.spec.ts">>, a)>>)>> :
            a \in TestLists, b \in TestLists}
    \cup {<<SuiteOf(<<"Root">>,
                    <<SuiteOf(<<>>,
                              <<SuiteOf(<<"Leaf">>, <<>>,
                                        <<SpecOf(<<"leaf.spec.ts">>, a)>>)>>,
                              <<SpecOf(<<>>, b)>>),
                      SuiteOf(<<"Sibling">>, <<>>,
                              <<SpecOf(<<"sibling.spec.ts">>, b)>>)>>,
                    <<>>)>> :
            a \in TestLists, b \in TestLists}

\* "suites": missing, an object, or an array of suites
SuitesOptions ==
    {<<>>, <<[kind |-> "object", items |-> <<>>]>>}
    \cup {<<[kind |-> "array", items |-> l]>> : l \in SuiteLists}

\* the parsed JSON documents parse_failures is given
Reports ==
    {[top |-> "object", stats |-> st, suites |-> su] :
        st \in StatsOptions, su \in SuitesOptions}
    \cup {[top |-> t, stats |-> <<>>, suites |-> <<>>] :
            t \in {"array", "number", "string"}}

\* --max-failures: not given (None), or a positive number
MaxFailuresOptions == {<<>>, <<1>>, <<2>>}

F_Timeout ==
    <<"T", "i", "m", "e", "o", "u", "t", " ", "3", "0", "0", "0", "0", "m",
      "s">>
F_boom == <<"b", "o", "o", "m">>
F_LocatorResolved ==
    <<"L", "o", "c", "a", "t", "o", "r", " ", "r", "e", "s", "o", "l", "v",
      "e", "d", " ", "t", "o">>
F_NavigationTimeout ==
    <<"N", "a", "v", "i", "g", "a", "t", "i", "o", "n", " ", "T", "i", "m",
      "e", "o", "u", "t">>
F_sep == <<" ">>

\* pieces of error messages: the words and phrases the classifiers look for,
\* some capitalised, and text no rule matches
Fragments ==
    {<<>>, F_boom, F_Timeout, F_NavigationTimeout, F_LocatorResolved,
     K_exceeded, K_selector, K_element, K_await, K_promise, K_type, K_error,
     K_mismatch, K_import, K_module, K_network, K_fetch, K_request,
     K_assertion, K_expect, K_waiting_for_selector, K_missing_await,
     K_did_you_forget_to_await, K_element_is_not_attached, K_multiple,
     K_cannot_find_module, K_type_number_is_not_assignable,
     K_type_string_is_not_assignable}

\* the error messages classified: two pieces with a separator between them;
\* the empty string is among them
Messages ==
    {(IF a # <<>> /\ b # <<>> THEN a \o F_sep \o b ELSE a \o b) :
        a \in Fragments, b \in Fragments}

----------------------------------------------------------------------------
(* Actions *)

\* main up to the first request: the zero-failure exit, then the start of
\* create_or_update_issue (format the body, search if deduplicate, else create)
Start(p, a, adv) ==
    /\ inv[p].pc = "idle"
    /\ runs < MaxInvocations
    /\ runs' = runs + 1
    /\ dedup_only' = (dedup_only /\ (no_failures(a.summary) \/ a.deduplicate))
    /\ LET advice == run_ai_analysis(ai_config, a.summary, adv)
           body == format_issue_body(a.summary, advice.ai_analysis)
           fresh == [IdleInv EXCEPT !.args = a]
           advised == [fresh EXCEPT !.advice = advice]
       IN inv' = [inv EXCEPT ![p] =
            IF no_failures(a.summary) THEN
                [fresh EXCEPT !.pc = "done",
                              !.ended = error_handler_wrapper(NoException)]
            ELSE IF advice.exc # NoException THEN
                [advised EXCEPT !.pc = "done", !.exc = advice.exc,
                                !.ended = error_handler_wrapper(advice.exc)]
            ELSE IF searches_first(a.deduplicate) THEN
                [advised EXCEPT !.pc = "search", !.body = body,
                              !.call = NewCall("GET", ("q" :> a.title), 0)]
            ELSE
                [advised EXCEPT !.pc = "create", !.body = body,
                              !.call = NewCall("POST",
                                  create_issue_data(a.title, body, a.labels,
                                                    a.assignees), 0)]]
    /\ UNCHANGED <<issues, max_retries, ai_config, report_vars>>

\* bug: a search that fails falls back to creating the issue
Raised_falls_back(r, c, how, e) ==
    IF c.method = "GET"
    THEN [r EXCEPT !.pc = "create",
                   !.call = NewCall("POST",
                       create_issue_data(r.args.title, r.body, r.args.labels,
                                         r.args.assignees), 0)]
    ELSE [r EXCEPT !.pc = "done", !.call = [c EXCEPT !.outcome = how], !.exc = e,
                   !.ended = error_handler_wrapper(e)]

\* the invocation ends with exception e leaving _make_request through `how`
Raised(r, c, how, e) ==
    [r EXCEPT !.pc = "done", !.call = [c EXCEPT !.outcome = how], !.exc = e,
              !.ended = error_handler_wrapper(e)]

\* the loop goes on to iteration `next`, or ends and line 110 raises
NextIteration(r, c, next) ==
    IF loop_continues(next, max_retries)
    THEN [r EXCEPT !.call = [c EXCEPT !.attempt = next]]
    ELSE Raised(r, [c EXCEPT !.attempt = next], "exhausted",
                Raise(PyException("RuntimeError", "Max retries exceeded")))

\* a request is answered 429: sleep for Retry-After, then `continue`
RateLimited(p, headers) ==
    /\ InCall(p)
    /\ Sends(inv[p].call) < MaxSends
    /\ LET c == inv[p].call
           c2 == [c EXCEPT !.got = Append(@, "429"),
                           !.status_code = 429, !.text = <<>>,
                           !.rate_headers = Append(@, headers),
                           !.sleeps = Append(@, retry_after(headers))]
           r == [inv[p] EXCEPT !.log = Append(@, c.method)]
       IN inv' = [inv EXCEPT ![p] =
                    NextIteration(r, c2, attempt_after_rate_limit(c.attempt))]
    /\ UNCHANGED <<issues, runs, dedup_only, max_retries, ai_config, report_vars>>

\* what the tracker holds after processing the request of call c
Processed(iss, c) ==
    IF c.method = "POST" THEN TrackerCreate(iss, c.data)
    ELSE IF c.method = "PATCH" THEN TrackerUpdate(iss, c.number, c.data)
    ELSE iss

\* a request ends in requests.RequestException. The connection failed either
\* before the tracker saw the request or after it had processed it (the
\* response was lost): `processed` says which.
TransportFailure(p, processed) ==
    /\ InCall(p)
    /\ Sends(inv[p].call) < MaxSends
    /\ processed => /\ inv[p].call.method \in {"POST", "PATCH"}
                    /\ inv[p].call.method = "POST" => Len(issues) < MaxIssues
    /\ LET c == inv[p].call
           c2 == [c EXCEPT !.got = Append(@, "exc"),
                           !.status_code = 0, !.text = <<>>]
           r == [inv[p] EXCEPT !.log = Append(@, c.method)]
       IN /\ issues' = IF processed THEN Processed(issues, c) ELSE issues
          /\ inv' = [inv EXCEPT ![p] =
                IF is_last_attempt(c.attempt, max_retries)
                THEN Raised(r, c2, "transport",
                            Raise(PyException("RequestException", "")))
                ELSE NextIteration(r,
                        [c2 EXCEPT !.sleeps = Append(@, backoff_seconds(c.attempt))],
                        c.attempt + 1)]
    /\ UNCHANGED <<runs, dedup_only, max_retries, ai_config, report_vars>>

\* a request is answered with a status >= 400 other than 429
ErrorResponse(p, status, text) ==
    /\ InCall(p)
    /\ Sends(inv[p].call) < MaxSends
    /\ LET c == inv[p].call
           c2 == [c EXCEPT !.got = Append(@, "error"),
                           !.status_code = status, !.text = text]
           r == [inv[p] EXCEPT !.log = Append(@, c.method)]
       IN inv' = [inv EXCEPT ![p] =
                    Raised(r, c2, "api_error", handle_api_error(status, text))]
    /\ UNCHANGED <<issues, runs, dedup_only, max_retries, ai_config, report_vars>>

\* the search request is answered 200: search_issues returns the items
SearchResponse(p) ==
    /\ inv[p].pc = "search"
    /\ Sends(inv[p].call) < MaxSends
    /\ LET c == inv[p].call
       IN inv' = [inv EXCEPT ![p] =
            [@ EXCEPT !.pc = "searched",
                      !.log = Append(@, c.method),
                      !.call = [c EXCEPT !.got = Append(@, "ok"),
                                         !.status_code = 200, !.text = <<>>,
                                         !.outcome = "returned"],
                      !.items = TrackerSearch(issues, c.data["q"])]]
    /\ UNCHANGED <<issues, runs, dedup_only, max_retries, ai_config, report_vars>>

\* _find_existing_issue's loop and the branch of create_or_update_issue
FindExisting(p) ==
    /\ inv[p].pc = "searched"
    /\ LET r == inv[p]
           a == r.args
           found == find_existing_issue(r.items, a.title)
       IN inv' = [inv EXCEPT ![p] =
            IF found # <<>> THEN
                [r EXCEPT !.pc = "update", !.existing = found,
                          !.call = NewCall("PATCH", update_issue_data(r.body),
                                           found[1].number)]
            ELSE
                [r EXCEPT !.pc = "create", !.existing = found,
                          !.call = NewCall("POST",
                              create_issue_data(a.title, r.body, a.labels,
                                                a.assignees), 0)]]
    /\ UNCHANGED <<issues, runs, dedup_only, max_retries, ai_config, report_vars>>

\* the create request is answered 201: the rest of create_or_update_issue
CreateResponse(p) ==
    /\ inv[p].pc = "create"
    /\ Sends(inv[p].call) < MaxSends
    /\ Len(issues) < MaxIssues
    /\ LET c == inv[p].call
           after == TrackerCreate(issues, c.data)
           issue == IssueJson(after, Len(after))
       IN /\ issues' = after
          /\ inv' = [inv EXCEPT ![p] =
                [@ EXCEPT !.pc = "done",
                          !.ended = error_handler_wrapper(NoException),
                          !.log = Append(@, c.method),
                          !.call = [c EXCEPT !.got = Append(@, "ok"),
                                             !.status_code = 201, !.text = <<>>,
                                             !.outcome = "returned"],
                          !.result = <<[issue_number |-> issue.number,
                                        issue_url |-> issue.html_url,
                                        was_created |-> TRUE]>>]]
    /\ UNCHANGED <<runs, dedup_only, max_retries, ai_config, report_vars>>

\* the update request is answered 200: the rest of create_or_update_issue
UpdateResponse(p) ==
    /\ inv[p].pc = "update"
    /\ Sends(inv[p].call) < MaxSends
    /\ LET c == inv[p].call
           existing_issue == inv[p].existing[1]
       IN /\ issues' = TrackerUpdate(issues, c.number, c.data)
          /\ inv' = [inv EXCEPT ![p] =
                [@ EXCEPT !.pc = "done",
                          !.ended = error_handler_wrapper(NoException),
                          !.log = Append(@, c.method),
                          !.call = [c EXCEPT !.got = Append(@, "ok"),
                                             !.status_code = 200, !.text = <<>>,
                                             !.outcome = "returned"],
                          !.result = <<[issue_number |-> existing_issue.number,
                                        issue_url |-> existing_issue.html_url,
                                        was_created |-> FALSE]>>]]
    /\ UNCHANGED <<runs, dedup_only, max_retries, ai_config, report_vars>>

\* the process of a finished invocation ends; the next run is a new process
Exit(p) ==
    /\ inv[p].pc = "done"
    /\ inv' = [inv EXCEPT ![p] = IdleInv]
    /\ UNCHANGED <<issues, runs, dedup_only, max_retries, ai_config, report_vars>>

\* parse_report.py is not running
ParseIdle ==
    [pc |-> "idle", report_data |-> [top |-> "none", stats |-> <<>>, suites |-> <<>>],
     max_failures |-> <<>>,
     outcome |-> Parsed("none", NoException, NoSummary, <<>>),
     ended |-> NotEnded]

\* a run of parse_report.py on a report file that holds JSON: main calls
\* parse_failures with the validated --max-failures, writes the summary and
\* exits; an exception goes to the wrapper of error_handler
ParseReport(report_data, max_failures) ==
    /\ parse.pc = "idle"
    /\ LET parsed == parse_failures(report_data, max_failures)
       IN parse' = [pc |-> "done", report_data |-> report_data,
                    max_failures |-> max_failures, outcome |-> parsed,
                    ended |-> error_handler_wrapper(parse_main_exception(parsed))]
    /\ UNCHANGED <<issue_vars, classify, extract, truncate>>

\* the process of the finished run ends
ParseExit ==
    /\ parse.pc = "done"
    /\ parse' = ParseIdle
    /\ UNCHANGED <<issue_vars, classify, extract, truncate>>

\* nothing is being classified
ClassifyIdle ==
    [pc |-> "idle", message |-> <<>>, error_type |-> "", suggested_pattern |-> "",
     fixability_hint |-> "", calls |-> 0]

\* _create_structured_export lines 336-344 for one failure: its message goes
\* through the three classifiers
Classify ==
    /\ classify.pc = "input"
    /\ classify' = [classify EXCEPT
            !.pc = "classified",
            !.error_type = classify_error_type(classify.message),
            !.suggested_pattern = detect_error_pattern(classify.message),
            !.fixability_hint = get_fixability_hint(classify.message),
            !.calls = 1]
    /\ UNCHANGED <<issue_vars, parse, extract, truncate>>

\* the same message is classified once more (another failure with the same
\* error message)
ClassifyAgain ==
    /\ classify.pc = "classified"
    /\ classify.calls = 1
    /\ classify' = [classify EXCEPT
            !.error_type = classify_error_type(classify.message),
            !.suggested_pattern = detect_error_pattern(classify.message),
            !.fixability_hint = get_fixability_hint(classify.message),
            !.calls = 2]
    /\ UNCHANGED <<issue_vars, parse, extract, truncate>>

\* no suite tree is being processed
ExtractIdle == [pc |-> "idle", suites |-> <<>>, failures |-> <<>>]

\* the extraction of parse_failures (lines 127-131) on a suites array: every
\* suite goes through _extract_suite_failures
ExtractFailures ==
    /\ extract.pc = "input"
    /\ extract' = [extract EXCEPT !.pc = "extracted",
                                  !.failures = suites_failures(extract.suites)]
    /\ UNCHANGED <<issue_vars, parse, classify, truncate>>

\* no text is being truncated
TruncateIdle == [pc |-> "idle", text |-> <<>>, max_length |-> 0, result |-> <<>>]

\* a call of truncate_text
Truncate ==
    /\ truncate.pc = "input"
    /\ truncate' = [truncate EXCEPT
            !.pc = "returned",
            !.result = truncate_text(truncate.text, truncate.max_length)]
    /\ UNCHANGED <<issue_vars, parse, classify, extract>>

----------------------------------------------------------------------------
(* Specifications *)

InitState ==
    /\ issues \in InitialTrackers
    /\ inv = [p \in Procs |-> IdleInv]
    /\ runs = 0
    /\ dedup_only = TRUE
    /\ ai_config = AIDisabled
    /\ parse = ParseIdle
    /\ classify = ClassifyIdle
    /\ extract = ExtractIdle
    /\ truncate = TruncateIdle

\* the program as shipped: every caller leaves max_retries at its default
Init == InitState /\ max_retries = DefaultMaxRetries

\* _make_request with each retry budget, in the last invocation of a sequence
InitBudget ==
    /\ issues \in InitialTrackers
    /\ inv = [p \in Procs |-> IdleInv]
    /\ runs = MaxInvocations - 1
    /\ dedup_only = TRUE
    /\ max_retries \in 1..MaxBudget
    /\ ai_config = AIDisabled
    /\ parse = ParseIdle
    /\ classify = ClassifyIdle
    /\ extract = ExtractIdle
    /\ truncate = TruncateIdle

\* one invocation of the issue step under each configuration of the advisory
\* layer
InitAdvisory ==
    /\ issues \in InitialTrackers
    /\ inv = [p \in Procs |-> IdleInv]
    /\ runs = MaxInvocations - 1
    /\ dedup_only = TRUE
    /\ max_retries = DefaultMaxRetries
    /\ ai_config \in AIConfigs
    /\ parse = ParseIdle
    /\ classify = ClassifyIdle
    /\ extract = ExtractIdle
    /\ truncate = TruncateIdle

Step(p) ==
    \/ \E a \in Inputs, adv \in Advisory : Start(p, a, adv)
    \/ \E h \in RetryAfterHeaders : RateLimited(p, h)
    \/ \E b \in BOOLEAN : TransportFailure(p, b)
    \/ \E e \in ErrorResponses : ErrorResponse(p, e[1], e[2])
    \/ SearchResponse(p)
    \/ FindExisting(p)
    \/ CreateResponse(p)
    \/ UpdateResponse(p)
    \/ Exit(p)

\* invocations one after another, all run by process 1
Next == Step(1)

Spec == Init /\ [][Next]_vars

SpecBudget == InitBudget /\ [][Next]_vars

SpecAdvisory == InitAdvisory /\ [][Next]_vars

\* parse_report.py, run on each report
InitParse ==
    /\ issues = <<>>
    /\ inv = [p \in Procs |-> IdleInv]
    /\ runs = 0
    /\ dedup_only = TRUE
    /\ max_retries = DefaultMaxRetries
    /\ ai_config = AIDisabled
    /\ parse = ParseIdle
    /\ classify = ClassifyIdle
    /\ extract = ExtractIdle
    /\ truncate = TruncateIdle

NextParse ==
    \/ \E r \in Reports, m \in MaxFailuresOptions : ParseReport(r, m)
    \/ ParseExit

SpecParse == InitParse /\ [][NextParse]_vars

\* the classifiers, applied to each message
InitClassify ==
    /\ issues = <<>>
    /\ inv = [p \in Procs |-> IdleInv]
    /\ runs = 0
    /\ dedup_only = TRUE
    /\ max_retries = DefaultMaxRetries
    /\ ai_config = AIDisabled
    /\ parse = ParseIdle
    /\ classify \in {[ClassifyIdle EXCEPT !.pc = "input", !.message = m] :
                        m \in Messages}
    /\ extract = ExtractIdle
    /\ truncate = TruncateIdle

NextClassify == Classify \/ ClassifyAgain

SpecClassify == InitClassify /\ [][NextClassify]_vars

\* two invocations side by side, one per process, each call with a single
\* attempt
InitRace == InitState /\ max_retries = 1

NextRace == \E p \in Procs : Step(p)

SpecRace == InitRace /\ [][NextRace]_vars

\* the extraction, applied to each suite tree
InitExtract ==
    /\ issues = <<>>
    /\ inv = [p \in Procs |-> IdleInv]
    /\ runs = 0
    /\ dedup_only = TRUE
    /\ max_retries = DefaultMaxRetries
    /\ ai_config = AIDisabled
    /\ parse = ParseIdle
    /\ classify = ClassifyIdle
    /\ extract \in {[ExtractIdle EXCEPT !.pc = "input", !.suites = l] :
                        l \in ExtractSuiteLists}
    /\ truncate = TruncateIdle

NextExtract == ExtractFailures

SpecExtract == InitExtract /\ [][NextExtract]_vars

\* truncate_text, applied to each text of up to MaxTextLen characters under
\* limits below the length of the truncation message, below and at the
\* reserve, and above it
InitTruncate ==
    /\ issues = <<>>
    /\ inv = [p \in Procs |-> IdleInv]
    /\ runs = 0
    /\ dedup_only = TRUE
    /\ max_retries = DefaultMaxRetries
    /\ ai_config = AIDisabled
    /\ parse = ParseIdle
    /\ classify = ClassifyIdle
    /\ extract = ExtractIdle
    /\ truncate \in {[TruncateIdle EXCEPT !.pc = "input",
                                          !.text = [i \in 1..n |-> "x"],
                                          !.max_length = m] :
                        n \in 0..MaxTextLen,
                        m \in {0, 10, 46, 50, 99, 100, 101, 120}}

NextTruncate == Truncate

SpecTruncate == InitTruncate /\ [][NextTruncate]_vars

----------------------------------------------------------------------------
(* Vocabulary of the claims *)

\* the invocation of p ran to completion: main returned without an exception
Completed(p) == inv[p].pc = "done" /\ inv[p].exc = NoException

\* the positions of the mutating requests in the log of p
MutatingAt(p) == {i \in 1..Len(inv[p].log) : inv[p].log[i] \in {"POST", "PATCH"}}

\* p is in, or has ended in, a _make_request call
HasCall(p) == inv[p].call.method \in Methods

\* every request of call c so far was answered 429
OnlyRateLimited(c) == \A i \in 1..Len(c.got) : c.got[i] = "429"

\* every request of call c so far ended in a transport failure
OnlyTransportFailures(c) == \A i \in 1..Len(c.got) : c.got[i] = "exc"

----------------------------------------------------------------------------
(* C1 *)

\* C1 as stated: an invocation that runs to completion has sent exactly one
\* mutating request (POST or PATCH, re-sends of the retry loop counted) when
\* failed_tests > 0, and none when failed_tests = 0.
C1_ExactlyOneMutatingRequest ==
    \A p \in Procs :
        Completed(p) =>
            Cardinality(MutatingAt(p)) =
                (IF inv[p].args.summary.failed_tests > 0 THEN 1 ELSE 0)

\* C1 amended: an invocation that runs to completion has sent no mutating
\* request when failed_tests = 0; when failed_tests > 0 it has made exactly one
\* mutating call (create_issue or update_issue, never both), whose request
\* was sent between 1 and max_retries times, every send with the same method,
\* only the last one answered with success.
C1_OneMutatingCall ==
    \A p \in Procs :
        Completed(p) =>
            LET r == inv[p]
                m == MutatingAt(p)
            IN IF r.args.summary.failed_tests = 0
               THEN m = {} /\ r.log = <<>>
               ELSE /\ Cardinality(m) >= 1
                    /\ Cardinality(m) <= max_retries
                    /\ \A i, j \in m : r.log[i] = r.log[j]
                    /\ \A i \in m, j \in 1..Len(r.log) : j > i => j \in m
                    /\ r.call.method \in {"POST", "PATCH"}
                    /\ Cardinality(m) = Sends(r.call)
                    /\ \A i \in 1..Sends(r.call) :
                          (r.call.got[i] = "ok") <=> (i = Sends(r.call))

\* C1 witness: a completed invocation with failures whose mutation was re-sent
C1_Witness ==
    \E p \in Procs :
        /\ Completed(p)
        /\ inv[p].args.summary.failed_tests > 0
        /\ Cardinality(MutatingAt(p)) = 2

----------------------------------------------------------------------------
(* C2 *)

\* C2 as stated: a 429 does not consume an attempt, so a call that has been
\* answered only 429s, however many, has not ended: it sends again, and a
\* success that follows is returned.
C2_RateLimitConsumesNothing ==
    \A p \in Procs :
        (HasCall(p) /\ OnlyRateLimited(inv[p].call))
            => inv[p].call.outcome = "pending"

\* C2 amended: a 429 makes the client sleep and go on to the next attempt,
\* consuming one of the max_retries attempts: after k consecutive 429s the
\* call has slept k times and is at attempt k; it sends again iff
\* k < max_retries, and with k = max_retries it has raised RuntimeError. A call
\* answered k 429s and then a success returns that response, and k < max_retries.
C2_RateLimitConsumesAttempt ==
    \A p \in Procs :
        LET c == inv[p].call
            k == Sends(c)
        IN /\ (HasCall(p) /\ OnlyRateLimited(c)) =>
                /\ c.attempt = k
                /\ Len(c.sleeps) = k
                /\ k <= max_retries
                /\ k < max_retries => c.outcome = "pending"
                /\ k = max_retries =>
                      /\ c.outcome = "exhausted"
                      /\ inv[p].pc = "done"
                      /\ inv[p].exc.cls = "RuntimeError"
           /\ (/\ HasCall(p)
               /\ k >= 1
               /\ c.got[k] = "ok"
               /\ \A i \in 1..(k - 1) : c.got[i] = "429") =>
                /\ c.outcome = "returned"
                /\ k - 1 < max_retries
                /\ Len(c.sleeps) = k - 1

\* C2 witness: max_retries consecutive 429s have exhausted the budget
C2_Witness ==
    \E p \in Procs :
        /\ HasCall(p)
        /\ OnlyRateLimited(inv[p].call)
        /\ Sends(inv[p].call) = max_retries
        /\ max_retries = DefaultMaxRetries
        /\ inv[p].call.outcome = "exhausted"

----------------------------------------------------------------------------
(* C3 *)

\* one more request of the call of p has been sent
CallAdvanced(p) == Sends(inv[p].call') = Sends(inv[p].call) + 1

----------------------------------------------------------------------------
(* C4 *)

\* C4: a transport failure of the request sent on attempt a (the i-th request,
\* a = i - 1) with a < max_retries - 1 is followed by a sleep of 2^a seconds
\* and the call goes on; on the last attempt it ends the call by re-raising
\* the RequestException, with no sleep after it. So max_retries failures in a
\* row make max_retries sends and the sleeps 1, 2, ..., 2^(max_retries - 2).
C4_TransportBackoff ==
    \A p \in Procs :
        LET c == inv[p].call IN
        HasCall(p) =>
            /\ \A i \in 1..Sends(c) :
                  c.got[i] = "exc" =>
                      IF i - 1 < max_retries - 1
                      THEN /\ Len(c.sleeps) >= i
                           /\ c.sleeps[i] = 2 ^ (i - 1)
                           /\ c.outcome = "pending" \/ Sends(c) > i
                      ELSE /\ i = Sends(c)
                           /\ Len(c.sleeps) = i - 1
                           /\ c.outcome = "transport"
                           /\ inv[p].pc = "done"
                           /\ inv[p].exc = PyException("RequestException", "")
            /\ (OnlyTransportFailures(c) /\ c.outcome = "transport") =>
                  /\ Sends(c) = max_retries
                  /\ c.sleeps = [a \in 1..(max_retries - 1) |-> 2 ^ (a - 1)]

\* C4 witness: three failures in a row with the budget of three
C4_Witness ==
    \E p \in Procs :
        /\ HasCall(p)
        /\ max_retries = 3
        /\ inv[p].call.got = <<"exc", "exc", "exc">>
        /\ inv[p].call.sleeps = <<1, 2>>
        /\ inv[p].exc.cls = "RequestException"

----------------------------------------------------------------------------
(* C5 *)

\* the seconds a Retry-After header of the model asks for
HeaderSeconds(h) ==
    IF h = EmptyMap THEN 60
    ELSE IF h["Retry-After"] = <<"1", "2">> THEN 12
    ELSE -1

\* C5: a search whose first response is a 429 and whose second is a success
\* has slept exactly once, for the seconds of Retry-After (60 without the
\* header), has sent exactly two requests, and has returned the items of the
\* second response without raising.
C5_SearchRateLimitedOnce ==
    \A p \in Procs :
        LET c == inv[p].call IN
        (c.method = "GET" /\ Sends(c) = 2 /\ c.got = <<"429", "ok">>) =>
            /\ c.sleeps = <<HeaderSeconds(c.rate_headers[1])>>
            /\ c.outcome = "returned"
            /\ inv[p].pc = "searched"
            /\ inv[p].exc = NoException
            /\ inv[p].log = <<"GET", "GET">>
            /\ inv[p].items = TrackerSearch(issues, inv[p].args.title)

\* C5 witness: such a search, the 429 carrying Retry-After: 12, with an item
C5_Witness ==
    \E p \in Procs :
        /\ inv[p].pc = "searched"
        /\ inv[p].call.got = <<"429", "ok">>
        /\ inv[p].call.rate_headers = <<("Retry-After" :> <<"1", "2">>)>>
        /\ inv[p].call.sleeps = <<12>>
        /\ inv[p].items # <<>>

----------------------------------------------------------------------------
(* C6 *)

\* the positions of the search results of p whose title equals the target
ExactItems(p) ==
    {i \in 1..Len(inv[p].items) : inv[p].items[i].title = inv[p].args.title}

Min(S) == CHOOSE x \in S : \A y \in S : x <= y

OpenWithTitle(t) ==
    {n \in 1..Len(issues) : issues[n].state = "open" /\ issues[n].title = t}

\* C6: an invocation with deduplicate on whose search returned an open issue
\* titled exactly as the target never sends a create request, and when it
\* returns it returns that issue's number and URL with was_created = False;
\* this holds for each invocation of a sequence.
C6_DedupIdempotent ==
    \A p \in Procs :
        LET r == inv[p] IN
        (r.args.deduplicate /\ ExactItems(p) # {}) =>
            /\ \A i \in 1..Len(r.log) : r.log[i] # "POST"
            /\ r.pc # "create"
            /\ Completed(p) =>
                  LET found == r.items[Min(ExactItems(p))] IN
                  /\ r.result = <<[issue_number |-> found.number,
                                   issue_url |-> found.html_url,
                                   was_created |-> FALSE]>>
                  /\ found.number \in OpenWithTitle(r.args.title)

\* C6 witness: the second invocation of a sequence has updated, not created
C6_Witness ==
    \E p \in Procs :
        /\ runs = 2
        /\ Completed(p)
        /\ inv[p].args.deduplicate
        /\ inv[p].result # <<>>
        /\ ~inv[p].result[1].was_created

----------------------------------------------------------------------------
(* C7 *)

\* C7: as long as every invocation ran with deduplicate on, the tracker never
\* holds two open issues with the same title.
C7_AtMostOneOpenIssue ==
    dedup_only => \A t \in Titles : Cardinality(OpenWithTitle(t)) <= 1

----------------------------------------------------------------------------
(* C8 *)

\* the document format_issue_body renders when there is no advisory result
PlainBody(summary) ==
    [failed_tests |-> summary.failed_tests,
     sections |-> <<"header", "stats", "details", "debug", "next_steps">>]

\* C8: an invocation that returns after a search without an exact-title item,
\* or with deduplicate off, has created an issue with the given title, the
\* formatted body, the requested labels and assignees, and returns its number
\* and URL with was_created = True; with deduplicate off it never searches.
C8_CreatesRequestedIssue ==
    \A p \in Procs :
        LET r == inv[p]
            a == r.args
        IN /\ (r.pc # "idle" /\ ~a.deduplicate) =>
                \A i \in 1..Len(r.log) : r.log[i] # "GET"
           /\ (/\ Completed(p)
               /\ ~no_failures(a.summary)
               /\ ~a.deduplicate \/ ExactItems(p) = {}) =>
                /\ Len(r.result) = 1
                /\ r.result[1].was_created
                /\ r.result[1].issue_number \in 1..Len(issues)
                /\ r.result[1].issue_url = Url(r.result[1].issue_number)
                /\ issues[r.result[1].issue_number] =
                      [title |-> a.title, body |-> PlainBody(a.summary),
                       labels |-> a.labels, assignees |-> a.assignees,
                       state |-> "open"]

\* C8 witness: the search returned only an issue whose title contains the
\* target, and the issue was created with a label and an assignee
C8_Witness ==
    \E p \in Procs :
        /\ Completed(p)
        /\ inv[p].args.deduplicate
        /\ inv[p].items # <<>>
        /\ ExactItems(p) = {}
        /\ inv[p].args.labels = <<"bug">>
        /\ inv[p].result # <<>>
        /\ inv[p].result[1].was_created

----------------------------------------------------------------------------
(* C9 *)

\* _find_existing_issue has run in the invocation of p
Looked(p) ==
    /\ inv[p].args.deduplicate
    /\ inv[p].pc \in {"create", "update", "done"}
    /\ inv[p].call.method \in {"POST", "PATCH"}

\* C9: _find_existing_issue selects the first search result, in the order
\* returned, whose title is equal to the target; a result whose title only
\* contains the target is never selected; with no equal title nothing is found.
C9_FirstExactMatch ==
    \A p \in Procs :
        LET r == inv[p] IN
        Looked(p) =>
            IF ExactItems(p) = {}
            THEN r.existing = <<>> /\ r.call.method = "POST"
            ELSE /\ r.existing = <<r.items[Min(ExactItems(p))]>>
                 /\ r.existing[1].title = r.args.title
                 /\ r.call.method = "PATCH"
                 /\ r.call.number = r.existing[1].number

\* C9 witness: the first search result only contains the target title and
\* the issue selected is a later one
C9_Witness ==
    \E p \in Procs :
        /\ Looked(p)
        /\ Len(inv[p].items) >= 2
        /\ inv[p].items[1].title # inv[p].args.title
        /\ inv[p].existing # <<>>
        /\ inv[p].existing[1] = inv[p].items[2]

----------------------------------------------------------------------------
(* C10 *)

\* the code and severity the claim gives a status code and response body
Translation(status_code, text) ==
    IF status_code = 401 THEN <<"INVALID_TOKEN", "critical">>
    ELSE IF status_code = 403 /\ Contains(Lower(text), RateLimitPhrase)
         THEN <<"API_RATE_LIMIT", "medium">>
    ELSE IF status_code = 403 THEN <<"API_PERMISSION_DENIED", "critical">>
    ELSE IF status_code = 404 THEN <<"API_NOT_FOUND", "high">>
    ELSE IF status_code >= 500 THEN <<"API_SERVER_ERROR", "medium">>
    ELSE <<"API_SERVER_ERROR", "high">>

\* C10: a response with a status >= 400 other than 429 ends the call with the
\* taxonomy error of its status code, whose details carry the status code and
\* the response body.
C10_TranslatedByStatus ==
    \A p \in Procs :
        LET c == inv[p].call
            e == inv[p].exc
        IN (HasCall(p) /\ c.outcome = "api_error") =>
            /\ e.cls = "ActionError"
            /\ <<e.code, e.severity>> = Translation(c.status_code, c.text)
            /\ e.details = [status_code |-> c.status_code, response |-> c.text]

----------------------------------------------------------------------------
(* Vocabulary of the claims about parse_report.py *)

ParseDone == parse.pc = "done"

\* the count the report gives under `key`, a missing count read as 0
CountOf(report_data, key) == Get(report_data.stats[1].counts, key, IntValue(0))

\* the report has the shape validation asks for: an object whose stats is an
\* object and whose suites is an array
WellShaped(report_data) ==
    /\ report_data.top = "object"
    /\ report_data.stats # <<>> /\ report_data.suites # <<>>
    /\ report_data.stats[1].kind = "object"
    /\ report_data.suites[1].kind = "array"

IntegerCounts(report_data) ==
    \A key \in {"expected", "unexpected", "skipped"} :
        CountOf(report_data, key).kind = "int"

SumOfCounts(report_data) ==
    CountOf(report_data, "expected").n + CountOf(report_data, "unexpected").n
    + CountOf(report_data, "skipped").n

\* the report passes validation: well shaped, with at least one test result
ValidReport(report_data) ==
    /\ WellShaped(report_data)
    /\ IntegerCounts(report_data)
    /\ SumOfCounts(report_data) > 0

Returned == parse.outcome.kind = "summary"

----------------------------------------------------------------------------
(* C11 *)

\* C11: parse_failures of a report that passes validation, with or without a
\* cap, returns a summary whose failure records are at most failed_tests.
C11_FailuresWithinFailedCount ==
    (ParseDone /\ ValidReport(parse.report_data)) =>
        /\ Returned
        /\ Len(parse.outcome.summary.failures)
              <= parse.outcome.summary.failed_tests.n

----------------------------------------------------------------------------
(* C12 *)

\* the failure records extracted with no cap
Uncapped(report_data) == suites_failures(report_data.suites[1].items)

\* C12: parse_failures of a valid report under cap C returns the first
\* min(n, C) of the n records extracted without a cap, in order, and the
\* counts of the report unchanged, failed_tests being n.
C12_CapKeepsCounts ==
    (ParseDone /\ ValidReport(parse.report_data)) =>
        LET all == Uncapped(parse.report_data)
            n == Len(all)
            kept == IF parse.max_failures = <<>> \/ n <= parse.max_failures[1]
                    THEN n ELSE parse.max_failures[1]
        IN /\ Returned
           /\ parse.outcome.summary.failures = SubSeq(all, 1, kept)
           /\ parse.outcome.summary.failed_tests
                 = CountOf(parse.report_data, "unexpected")
           /\ parse.outcome.summary.failed_tests.n = n

----------------------------------------------------------------------------
(* C13 *)

\* C13: parse_failures of a report that passes validation returns a summary
\* with total_tests = passed_tests + failed_tests + skipped_tests, the three
\* being the report's expected, unexpected and skipped counts.
C13_TotalIsSumOfCounts ==
    (ParseDone /\ ValidReport(parse.report_data)) =>
        /\ Returned
        /\ parse.outcome.summary.passed_tests = CountOf(parse.report_data, "expected")
        /\ parse.outcome.summary.failed_tests = CountOf(parse.report_data, "unexpected")
        /\ parse.outcome.summary.skipped_tests = CountOf(parse.report_data, "skipped")
        /\ parse.outcome.summary.total_tests.n
              = parse.outcome.summary.passed_tests.n
                + parse.outcome.summary.failed_tests.n
                + parse.outcome.summary.skipped_tests.n

----------------------------------------------------------------------------
(* C14 *)

\* the run failed with the taxonomy error `code`, before extracting anything
FailedWith(code) ==
    /\ parse.outcome.kind = "raised"
    /\ parse.outcome.exc.cls = "ActionError"
    /\ parse.outcome.exc.code = code
    /\ \A i \in 1..Len(parse.outcome.steps) : parse.outcome.steps[i] # "extract"

\* C14: of a top-level object, validation fails with INVALID_REPORT_FORMAT
\* when stats or suites is missing; otherwise with CORRUPTED_REPORT when stats
\* is not an object or suites not an array; otherwise with NO_TEST_RESULTS
\* when expected + unexpected + skipped is 0; and no summary is returned.
C14_ValidationInOrder ==
    (ParseDone /\ parse.report_data.top = "object") =>
        LET r == parse.report_data IN
        IF r.stats = <<>> \/ r.suites = <<>>
        THEN FailedWith("INVALID_REPORT_FORMAT")
        ELSE IF r.stats[1].kind # "object" \/ r.suites[1].kind # "array"
        THEN FailedWith("CORRUPTED_REPORT")
        ELSE (IntegerCounts(r) /\ SumOfCounts(r) = 0)
                => FailedWith("NO_TEST_RESULTS")

----------------------------------------------------------------------------
(* C15 *)

\* C15: whatever the JSON document, parse_failures either returns a summary
\* or fails with a taxonomy error; no other exception leaves it.
C15_SummaryOrTaxonomyError ==
    ParseDone => (Returned \/ parse.outcome.exc.cls = "ActionError")

----------------------------------------------------------------------------
(* C16 *)

\* the failing result attempts of a suite tree whose record can be built
GoodAttemptsOfSpecs(specs) ==
    Cardinality(UNION {UNION {{<<s, t, k>> :
            k \in {x \in 1..Len(specs[s].tests[t].results) :
                    /\ specs[s].tests[t].results[x].status \in {"failed", "timedOut"}
                    /\ specs[s].tests[t].results[x].error # "string"}} :
        t \in 1..Len(specs[s].tests)} : s \in 1..Len(specs)})

RECURSIVE GoodAttempts(_)
GoodAttempts(suites) ==
    IF suites = <<>> THEN 0
    ELSE GoodAttempts(Head(suites).suites) + GoodAttemptsOfSpecs(Head(suites).specs)
         + GoodAttempts(Tail(suites))

\* a failing result attempt of the tree has a garbled error
RECURSIVE HasGarbled(_)
HasGarbled(suites) ==
    /\ suites # <<>>
    /\ \/ HasGarbled(Head(suites).suites)
       \/ HasGarbled(Tail(suites))
       \/ \E s \in 1..Len(Head(suites).specs) :
            \E t \in 1..Len(Head(suites).specs[s].tests) :
              \E k \in 1..Len(Head(suites).specs[s].tests[t].results) :
                Head(suites).specs[s].tests[t].results[k].error = "string"

\* C16: when building the record of one failing result attempt raises,
\* parse_failures still returns a summary, which holds the record of every
\* other failing attempt and none for the bad one; nothing is raised.
C16_BadRecordSkipped ==
    (ParseDone /\ ValidReport(parse.report_data) /\ parse.max_failures = <<>>
        /\ HasGarbled(parse.report_data.suites[1].items)) =>
        /\ Returned
        /\ parse.outcome.exc = NoException
        /\ Len(parse.outcome.summary.failures)
              = GoodAttempts(parse.report_data.suites[1].items)

----------------------------------------------------------------------------
(* C17 *)

ErrorTypes ==
    {"timeout", "selector", "async", "type_error", "import_error", "network",
     "assertion", "unknown"}

ErrorPatterns ==
    {"selector_timeout", "missing_await", "element_detached",
     "navigation_timeout", "multiple_elements", "module_not_found",
     "type_mismatch_number", "type_mismatch_string", "unknown_pattern"}

Has(message, word) == Contains(Lower(message), word)

\* a rule of _classify_error_type matches the message
TypeRuleMatches(m) ==
    \/ \E w \in {K_timeout, K_exceeded, K_selector, K_element, K_await,
                 K_promise, K_import, K_module, K_network, K_fetch, K_request,
                 K_assertion, K_expect} : Has(m, w)
    \/ Has(m, K_type) /\ (Has(m, K_error) \/ Has(m, K_mismatch))

\* a rule of _detect_error_pattern matches the message
PatternRuleMatches(m) ==
    \/ Has(m, K_waiting_for_selector) /\ Has(m, K_timeout)
    \/ Has(m, K_locator_resolved_to) /\ Has(m, K_multiple)
    \/ \E w \in {K_missing_await, K_did_you_forget_to_await,
                 K_element_is_not_attached, K_navigation_timeout,
                 K_cannot_find_module, K_type_number_is_not_assignable,
                 K_type_string_is_not_assignable} : Has(m, w)

\* C17: for every message, the empty one included, _classify_error_type gives
\* one of its eight tags and _detect_error_pattern one of its nine, "unknown"
\* and "unknown_pattern" exactly when no rule matches; and classifying the
\* same message again gives the same tags.
C17_ClassifiersTotal ==
    /\ [](classify.pc = "classified" =>
            /\ classify.error_type \in ErrorTypes
            /\ classify.suggested_pattern \in ErrorPatterns
            /\ (classify.error_type = "unknown")
                  <=> ~TypeRuleMatches(classify.message)
            /\ (classify.suggested_pattern = "unknown_pattern")
                  <=> ~PatternRuleMatches(classify.message))
    /\ [][(classify.pc = "classified" /\ classify'.pc = "classified") =>
            /\ classify'.message = classify.message
            /\ classify'.error_type = classify.error_type
            /\ classify'.suggested_pattern = classify.suggested_pattern]_vars

\* C17 witness: the empty message was classified twice, with no rule matching
C17_Witness ==
    /\ classify.pc = "classified"
    /\ classify.calls = 2
    /\ classify.message = <<>>
    /\ classify.error_type = "unknown"
    /\ classify.suggested_pattern = "unknown_pattern"

----------------------------------------------------------------------------
(* C18 *)

\* the exit code the claim gives a severity
ExitCodeOf(severity) ==
    CASE severity = "low" -> 0
      [] severity = "medium" -> 1
      [] severity = "high" -> 2
      [] severity = "critical" -> 3

\* C18: a run that ends without error exits 0; a run ended by the taxonomy
\* error of an error response exits with the code of that error's severity
\* (LOW 0, MEDIUM 1, HIGH 2, CRITICAL 3) after handle_error has written the
\* error's code and message.
C18_ExitCodeBySeverity ==
    \A p \in Procs :
        inv[p].pc = "done" =>
            /\ inv[p].exc = NoException => inv[p].ended.exit_code = 0
            /\ (HasCall(p) /\ inv[p].call.outcome = "api_error") =>
                  LET t == Translation(inv[p].call.status_code, inv[p].call.text)
                  IN /\ inv[p].ended.exit_code = ExitCodeOf(t[2])
                     /\ Len(inv[p].ended.emitted) = 2
                     /\ inv[p].ended.emitted[1] = t[1]

----------------------------------------------------------------------------
(* C19 *)

\* the invocation of process p went on to the issue step: it has started a
\* tracker call
WentOn(p) == HasCall(p)

----------------------------------------------------------------------------
(* C20 *)

\* the phases an invocation passes through, "searched" being the end of the
\* searching phase (the results are in, the match is being looked for)
PhaseSteps ==
    {<<"idle", "search">>, <<"search", "searched">>, <<"searched", "create">>,
     <<"searched", "update">>, <<"create", "done">>, <<"update", "done">>,
     <<"search", "done">>, <<"idle", "done">>, <<"done", "idle">>}

\* the requests of the log from position i on all have method m
AllFrom(log, i, m) == \A j \in i..Len(log) : log[j] = m

\* C20: an invocation with deduplicate on goes searching -> creating or
\* updating -> done. Its requests are the GETs of one search call followed by
\* the requests of one mutating call, create or update and never both; a
\* mutating request is sent only after the search has returned; the search
\* that returns is always followed by the create or the update; and after
\* the mutation has succeeded the invocation is done and sends nothing more.
C20_SearchThenMutateThenDone ==
    /\ [](\A p \in Procs :
            (inv[p].pc # "idle" /\ inv[p].args.deduplicate
                /\ inv[p].args.summary.failed_tests > 0) =>
                LET r == inv[p]
                    m == MutatingAt(p)
                    gets == {i \in 1..Len(r.log) : r.log[i] = "GET"}
                IN /\ \A i \in gets, j \in m : i < j
                   /\ Cardinality(gets) <= max_retries
                   /\ \A i, j \in m : r.log[i] = r.log[j]
                   /\ m # {} => /\ gets # {}
                                /\ r.pc \in {"create", "update", "done"}
                                /\ r.call.method \in {"POST", "PATCH"}
                   /\ r.pc \in {"create", "update"} =>
                         \/ m # {}
                         \/ (r.log # <<>> /\ r.log[Len(r.log)] = "GET")
                   /\ r.result # <<>> => /\ r.pc = "done"
                                         /\ m # {}
                                         /\ r.call.got[Len(r.call.got)] = "ok")
    /\ [][\A p \in Procs :
            (inv[p].pc' # inv[p].pc
                /\ ((inv[p].pc # "idle" /\ inv[p].args.deduplicate)
                    \/ (inv[p].pc = "idle" /\ inv[p].args'.deduplicate))) =>
                /\ <<inv[p].pc, inv[p].pc'>> \in PhaseSteps
                /\ (inv[p].pc = "idle" /\ inv[p].pc' = "done") =>
                        inv[p].args'.summary.failed_tests = 0
                /\ (inv[p].pc = "search" /\ inv[p].pc' = "done") =>
                        inv[p].exc' # NoException
                /\ inv[p].pc = "done" => inv[p].log' = <<>>]_vars

\* C20 witness: a deduplicating invocation whose search was sent twice and
\* returned, and which then updated the issue it found and is done
C20_Witness ==
    \E p \in Procs :
        /\ inv[p].args.deduplicate
        /\ Completed(p)
        /\ inv[p].log = <<"GET", "GET", "PATCH">>
        /\ ~inv[p].result[1].was_created

----------------------------------------------------------------------------
(* C21 *)

\* C21: two invocations with deduplicate on and the same title run side by
\* side. When the search of each returned no open issue with that title (both
\* searches were answered before either create reached the tracker), each goes
\* on to create; once both have returned, each has created an issue of its
\* own, and the tracker holds two open issues with that title.
C21_StaleSearchesBothCreate ==
    \A p, q \in Procs :
        (/\ p # q
         /\ Looked(p) /\ Looked(q)
         /\ inv[p].args.title = inv[q].args.title
         /\ ExactItems(p) = {} /\ ExactItems(q) = {}) =>
            /\ inv[p].call.method = "POST"
            /\ inv[q].call.method = "POST"
            /\ (Completed(p) /\ Completed(q)) =>
                  LET t == inv[p].args.title
                      np == inv[p].result[1].issue_number
                      nq == inv[q].result[1].issue_number
                  IN /\ inv[p].result[1].was_created
                     /\ inv[q].result[1].was_created
                     /\ np # nq
                     /\ {np, nq} \subseteq OpenWithTitle(t)
                     /\ Cardinality(OpenWithTitle(t)) >= 2

\* C21 witness: the tracker held no issue with the title, both invocations
\* sent one search and one create, and two open issues with the title exist
C21_Witness ==
    \E t \in Titles :
        /\ \A p \in Procs :
              /\ Completed(p)
              /\ inv[p].args.deduplicate
              /\ inv[p].args.title = t
              /\ inv[p].items = <<>>
              /\ inv[p].log = <<"GET", "POST">>
              /\ inv[p].result[1].was_created
        /\ Cardinality(OpenWithTitle(t)) = 2

----------------------------------------------------------------------------
(* C22 *)

\* C22: an invocation that found an open issue titled exactly as the target
\* makes one update_issue call and no create: every mutating request it sends
\* is the PATCH of that call, addressed to the found issue, with a payload
\* whose only key is the body. While the update is under way the tracker keeps
\* the number of issues, every issue's title, state, labels and assignees, and
\* every other issue as a whole; when the invocation returns, the found issue
\* has the new body and the result is its number and URL with was_created
\* False.
C22_UpdateCarriesOnlyBody ==
    /\ [](\A p \in Procs :
            LET r == inv[p] IN
            (r.args.deduplicate /\ r.existing # <<>>) =>
                /\ r.call.method = "PATCH"
                /\ r.call.number = r.existing[1].number
                /\ DOMAIN r.call.data = {"body"}
                /\ r.call.data["body"] = r.body
                /\ \A i \in 1..Len(r.log) : r.log[i] # "POST"
                /\ Cardinality(MutatingAt(p)) = Sends(r.call)
                /\ Completed(p) =>
                      /\ r.result = <<[issue_number |-> r.existing[1].number,
                                       issue_url |-> r.existing[1].html_url,
                                       was_created |-> FALSE]>>
                      /\ issues[r.existing[1].number].body = r.body)
    /\ [][\A p \in Procs :
            inv[p].pc = "update" =>
                /\ Len(issues') = Len(issues)
                /\ \A n \in 1..Len(issues) :
                      /\ issues'[n].title = issues[n].title
                      /\ issues'[n].state = issues[n].state
                      /\ issues'[n].labels = issues[n].labels
                      /\ issues'[n].assignees = issues[n].assignees
                      /\ n # inv[p].call.number => issues'[n] = issues[n]]_vars

\* C22 witness: labels and assignees were requested, the issue found was
\* updated, and it has the new body and the labels it had
C22_Witness ==
    \E p \in Procs :
        /\ Completed(p)
        /\ inv[p].existing # <<>>
        /\ inv[p].args.labels = <<"bug">>
        /\ inv[p].args.assignees = <<"user1">>
        /\ inv[p].result # <<>>
        /\ ~inv[p].result[1].was_created
        /\ issues[inv[p].existing[1].number] =
              [OldIssue(inv[p].args.title) EXCEPT !.body = inv[p].body]

----------------------------------------------------------------------------
(* Vocabulary of the claims about the extraction *)

Extracted == extract.pc = "extracted"

RECURSIVE SuitePaths(_)
\* the suites of a tree, each named by the indices that lead to it
SuitePaths(suites) ==
    UNION {{<<i>>} \cup {<<i>> \o q : q \in SuitePaths(suites[i].suites)} :
              i \in 1..Len(suites)}

RECURSIVE SuiteAt(_, _)
SuiteAt(suites, path) ==
    IF Len(path) = 1 THEN suites[path[1]]
    ELSE SuiteAt(suites[path[1]].suites, Tail(path))

\* the result attempts of a tree: the suite that directly contains the spec,
\* then the indices of the spec, the test and the result
Attempts(suites) ==
    UNION {UNION {UNION {
        {[path |-> q, at |-> <<s, t, k>>] :
            k \in 1..Len(SuiteAt(suites, q).specs[s].tests[t].results)} :
        t \in 1..Len(SuiteAt(suites, q).specs[s].tests)} :
        s \in 1..Len(SuiteAt(suites, q).specs)} :
        q \in SuitePaths(suites)}

SpecAt(suites, a) == SuiteAt(suites, a.path).specs[a.at[1]]

TestAt(suites, a) == SpecAt(suites, a).tests[a.at[2]]

ResultAt(suites, a) == TestAt(suites, a).results[a.at[3]]

\* the attempts the claims call reportable failures whose record can be built
Reported(suites) ==
    {a \in Attempts(suites) :
        /\ ResultAt(suites, a).status \in {"failed", "timedOut"}
        /\ ResultAt(suites, a).error # "string"}

\* the record of the attempt at a
RecordOf(suites, a) ==
    create_test_failure(TestAt(suites, a), ResultAt(suites, a), SpecAt(suites, a),
                        GetOpt(SuiteAt(suites, a.path).title, ""))[1]

\* how many positions of a sequence hold x
Occurrences(seq, x) == Cardinality({i \in 1..Len(seq) : seq[i] = x})

----------------------------------------------------------------------------
(* C23 *)

----------------------------------------------------------------------------
(* C24 *)

IsPrefix(x, y) == Len(x) <= Len(y) /\ SubSeq(y, 1, Len(x)) = x

\* x comes before y in the lexicographic order of two index sequences of
\* the same length
LexLess(x, y) ==
    \E i \in 1..Len(x) :
        /\ x[i] < y[i]
        /\ \A j \in 1..(i - 1) : x[j] = y[j]

\* the attempt at a comes before the attempt at b in the order the claim
\* gives: suites in list order, the nested suites of a suite before its own
\* specs, then spec, test and result order
Before(a, b) ==
    IF a.path = b.path THEN LexLess(a.at, b.at)
    ELSE IF IsPrefix(b.path, a.path) THEN TRUE
    ELSE IF IsPrefix(a.path, b.path) THEN FALSE
    ELSE \E i \in 1..Len(a.path) :
            /\ i <= Len(b.path)
            /\ a.path[i] < b.path[i]
            /\ \A j \in 1..(i - 1) : a.path[j] = b.path[j]

RECURSIVE InOrder(_)
\* the attempts of S, each before the ones that come after it
InOrder(S) ==
    IF S = {} THEN <<>>
    ELSE LET first == CHOOSE a \in S : \A b \in S \ {a} : Before(a, b)
         IN <<first>> \o InOrder(S \ {first})

----------------------------------------------------------------------------
(* C25 *)

\* the title of the test at a, as the record names it
TitleOfTest(suites, a) == GetOpt(TestAt(suites, a).title, "Unknown test")

\* the name the claim gives the record of the attempt at a: qualified by the
\* title of the suite that directly contains the spec, when it has one
NameOf(suites, a) ==
    LET title == SuiteAt(suites, a.path).title IN
    IF title = <<>> \/ title = <<"">> THEN <<TitleOfTest(suites, a)>>
    ELSE <<title[1], " > ", TitleOfTest(suites, a)>>

----------------------------------------------------------------------------
(* C26 *)

\* the attempt at a is failing, its test entry has no title and no location,
\* and its result has no error
BareAttempt(suites, a) ==
    /\ ResultAt(suites, a).status \in {"failed", "timedOut"}
    /\ ResultAt(suites, a).error = "missing"
    /\ TestAt(suites, a).title = <<>>
    /\ TestAt(suites, a).location = <<>>

----------------------------------------------------------------------------
(* C27 *)

\* the types of the rules of _classify_error_type, in the order of the claim
RuleTypes ==
    <<"timeout", "selector", "async", "type_error", "import_error", "network",
      "assertion">>

\* rule i of the claim matches the message
RuleMatches(i, m) ==
    CASE i = 1 -> Has(m, K_timeout) \/ Has(m, K_exceeded)
      [] i = 2 -> Has(m, K_selector) \/ Has(m, K_element)
      [] i = 3 -> Has(m, K_await) \/ Has(m, K_promise)
      [] i = 4 -> Has(m, K_type) /\ (Has(m, K_error) \/ Has(m, K_mismatch))
      [] i = 5 -> Has(m, K_import) \/ Has(m, K_module)
      [] i = 6 -> Has(m, K_network) \/ Has(m, K_fetch) \/ Has(m, K_request)
      [] i = 7 -> Has(m, K_assertion) \/ Has(m, K_expect)

MatchingRules(m) == {i \in 1..Len(RuleTypes) : RuleMatches(i, m)}

\* C27: _classify_error_type gives the type of the first rule, in the order
\* timeout, selector, async, type_error, import_error, network, assertion,
\* that matches the lower-cased message, and unknown when none does.
C27_FirstMatchingRule ==
    classify.pc = "classified" =>
        LET matching == MatchingRules(classify.message) IN
        classify.error_type =
            (IF matching = {} THEN "unknown" ELSE RuleTypes[Min(matching)])

\* C27 witness: a capitalised message that matches the timeout rule and the
\* selector rule was classified as a timeout
C27_Witness ==
    /\ classify.pc = "classified"
    /\ classify.message = F_Timeout \o F_sep \o K_selector
    /\ MatchingRules(classify.message) = {1, 2}
    /\ classify.error_type = "timeout"

----------------------------------------------------------------------------
(* C28 *)

\* the text ends with the truncation message
EndsWithMessage(text) ==
    /\ Len(text) >= Len(TruncationMessage)
    /\ SubSeq(text, Len(text) - Len(TruncationMessage) + 1, Len(text))
          = TruncationMessage

\* C28: for every text and every max_length, truncate_text returns the text
\* unchanged when its length is at most max_length, and otherwise a result of
\* length at most max_length that ends with the truncation message.
C28_TruncatedWithinLimit ==
    truncate.pc = "returned" =>
        IF Len(truncate.text) <= truncate.max_length
        THEN truncate.result = truncate.text
        ELSE /\ Len(truncate.result) <= truncate.max_length
             /\ EndsWithMessage(truncate.result)

----------------------------------------------------------------------------
(* C29 *)

\* C29: a response with a status >= 400 other than 429 (a 5xx and a 403 with
\* rate-limit wording included) ends the call where it arrives: it is the
\* last response of the call, the translated error is what leaves the call,
\* no sleep follows it (the sleeps are those of the responses before it), and
\* the invocation sends nothing more, however many attempts remain.
C29_ErrorEndsCallAtOnce ==
    \A p \in Procs :
        LET c == inv[p].call IN
        (HasCall(p) /\ \E i \in 1..Len(c.got) : c.got[i] = "error") =>
            /\ \A i \in 1..Len(c.got) : (c.got[i] = "error") <=> (i = Len(c.got))
            /\ c.outcome = "api_error"
            /\ inv[p].pc = "done"
            /\ inv[p].exc.cls = "ActionError"
            /\ <<inv[p].exc.code, inv[p].exc.severity>>
                  = Translation(c.status_code, c.text)
            /\ Len(c.sleeps) = Len(c.got) - 1
            /\ c.attempt = Len(c.got) - 1
            /\ inv[p].result = <<>>

----------------------------------------------------------------------------
(* C30 *)

\* the search of the invocation of p failed: its call ended otherwise than by
\* returning a response
SearchFailed(p) ==
    /\ inv[p].call.method = "GET"
    /\ inv[p].call.outcome \in {"api_error", "transport", "exhausted"}

\* C30: when the dedup search fails (on an error response, on a transport
\* failure at the last attempt, or with the attempts exhausted) the exception
\* that left the search ends the invocation: no create and no update request
\* is or will be sent, nothing is returned, and the tracker is as it was when
\* the search began.
C30_FailedSearchMutatesNothing ==
    /\ [](\A p \in Procs :
            SearchFailed(p) =>
                /\ inv[p].pc = "done"
                /\ inv[p].exc # NoException
                /\ inv[p].exc.cls \in ExceptionClasses
                /\ MutatingAt(p) = {}
                /\ inv[p].result = <<>>
                /\ inv[p].ended.exit_code # 0)
    /\ [][\A p \in Procs :
            (inv[p].pc = "search" \/ SearchFailed(p)) =>
                /\ issues' = issues
                /\ inv[p].pc' \in {"search", "searched", "done", "idle"}
                /\ inv[p].pc' = "done" =>
                      /\ SearchFailed(p)'
                      /\ MutatingAt(p)' = {}
                /\ SearchFailed(p) => inv[p].pc' = "idle"]_vars

\* C30 witness: from a tracker that holds an issue, a search that was answered
\* a 429 and then a server error ended the invocation with nothing sent but
\* the two GETs
C30_Witness ==
    \E p \in Procs :
        /\ SearchFailed(p)
        /\ inv[p].call.outcome = "api_error"
        /\ inv[p].call.status_code = 500
        /\ inv[p].log = <<"GET", "GET">>
        /\ inv[p].pc = "done"
        /\ Len(issues) = 1

====
